---------------------------- MODULE Spec2Model ----------------------------
(***************************************************************************)
(* A model of the Engage language implementation: the tree-walking        *)
(* interpreter of engage_interpreter.py (scopes, user functions, the       *)
(* Result operator `or return error`, fibers, the top-level soft-fail      *)
(* loop), its concurrency primitives (tasks, channels) and the parser of   *)
(* engage_parser.py.                                                       *)
(***************************************************************************)
EXTENDS Integers, Sequences, FiniteSets, TLC

(***************************************************************************)
(* Bounds of the model and constants of the program.                       *)
(***************************************************************************)
\* number of top-level statements of a generated soft-fail program
ProgLen == 12
\* number of statements of a generated fiber body
MaxBody == 3
\* number of `call` statements that follow a fiber definition
NumCalls == 4
\* visit_ProgramNode: max_errors
max_errors == 10
\* StackTrace.__init__: max_frames
max_frames == 50

(***************************************************************************)
(* Runtime values (engage_values.py) and the wrapper objects of the        *)
(* interpreter.  Every Python object the interpreter passes around is a    *)
(* record tagged with its class in field t.                                *)
(***************************************************************************)
Number(n) == [t |-> "Number", value |-> n]
String(s) == [t |-> "String", value |-> s]
NoneValue == [t |-> "NoneValue"]
\* Python's None
PyNone == [t |-> "None"]
ResultValue(type, v) == [t |-> "ResultValue", type |-> type, value |-> v]
Function(name, body, args) ==
  [t |-> "Function", name |-> name, body_node |-> body, arg_names |-> args]
BuiltInFunction(name) == [t |-> "BuiltInFunction", name |-> name]
\* a reference to the Fiber object fibers[id]
Fiber(id) == [t |-> "Fiber", id |-> id]
ReturnValue(v) == [t |-> "ReturnValue", value |-> v]
YieldValue(v) == [t |-> "YieldValue", value |-> v]
\* a reference to the Channel object channels[id]
Channel(id) == [t |-> "Channel", id |-> id]
\* a reference to the Table object tables[id]
Table(id) == [t |-> "Table", id |-> id]
\* methods and default_props are functions from names to values
Record(name, methods, default_props) ==
  [t |-> "Record", name |-> name, methods |-> methods, default_props |-> default_props]
\* context is the index of the instance's SymbolTable in scopes
RecordInstance(record_class, context) ==
  [t |-> "RecordInstance", record_class |-> record_class, context |-> context]
\* a reference to the Vector object tables[id]
Vector(id) == [t |-> "Vector", id |-> id]
BoundMethod(instance, method) ==
  [t |-> "BoundMethod", instance |-> instance, method |-> method]

\* Value.is_true and its overrides
is_true(v, st) ==
  CASE v.t = "Number" -> v.value # 0
    [] v.t = "String" -> v.value # ""
    [] v.t = "ResultValue" -> v.type = "Ok"
    [] v.t = "Table" -> DOMAIN st.tables[v.id] # {}
    [] v.t = "Vector" -> DOMAIN st.tables[v.id] # {}
    [] OTHER -> FALSE

(***************************************************************************)
(* AST nodes (engage_parser.py), tagged with the node class in field k.    *)
(***************************************************************************)
NumberNode(n) == [k |-> "NumberNode", value |-> n]
StringNode(s) == [k |-> "StringNode", value |-> s]
VarAccessNode(x) == [k |-> "VarAccessNode", name |-> x]
BinOpNode(l, op, r) == [k |-> "BinOpNode", left_node |-> l, op |-> op, right_node |-> r]
UnaryOpNode(op, n) == [k |-> "UnaryOpNode", op |-> op, node |-> n]
ResultNode(type, n) == [k |-> "ResultNode", type |-> type, value_node |-> n]
FuncCallNode(f, args) == [k |-> "FuncCallNode", node_to_call |-> f, arg_nodes |-> args]
VarAssignNode(x, n) == [k |-> "VarAssignNode", name |-> x, value_node |-> n]
SetNode(target, n) == [k |-> "SetNode", target_node |-> target, value_node |-> n]
FuncDefNode(f, params, body) ==
  [k |-> "FuncDefNode", name |-> f, param_tokens |-> params, body_nodes |-> body]
ReturnNode(n) == [k |-> "ReturnNode", node_to_return |-> n]
RecordDefNode(name, members) == [k |-> "RecordDefNode", name |-> name, members |-> members]
PropertyDefNode(name, default_value) ==
  [k |-> "PropertyDefNode", name |-> name, default_value |-> default_value]
ProgramNode(stmts) == [k |-> "ProgramNode", statements |-> stmts]
\* properties is a sequence of <<name, value node>>, in the order of the dict
NewInstanceNode(name, properties) ==
  [k |-> "NewInstanceNode", name |-> name, properties |-> properties]
SelfNode == [k |-> "SelfNode"]
MemberAccessNode(n, member) ==
  [k |-> "MemberAccessNode", instance_node |-> n, member |-> member]
\* cases is a sequence of <<condition, statements>>; else_case is <<>> when absent
IfNode(cases, else_case) == [k |-> "IfNode", cases |-> cases, else_case |-> else_case]
WhileNode(c, body) == [k |-> "WhileNode", condition_node |-> c, body_nodes |-> body]
FiberDefNode(f, body) == [k |-> "FiberDefNode", name |-> f, body_nodes |-> body]
YieldNode(n) == [k |-> "YieldNode", value_node |-> n]
TaskNode(body) == [k |-> "TaskNode", body_nodes |-> body]
ChannelNode(name) == [k |-> "ChannelNode", name |-> name]
SendNode(c, n) == [k |-> "SendNode", channel_node |-> c, value_node |-> n]
ReceiveNode(c) == [k |-> "ReceiveNode", channel_node |-> c]
TableNode == [k |-> "TableNode"]
VectorNode == [k |-> "VectorNode"]
TypeNameNode(type) == [k |-> "TypeNameNode", type |-> type]
IndexAccessNode(o, i) == [k |-> "IndexAccessNode", object_node |-> o, index_node |-> i]
IndexAssignNode(o, i, n) ==
  [k |-> "IndexAssignNode", object_node |-> o, index_node |-> i, value_node |-> n]

(***************************************************************************)
(* The interpreter's heap, threaded through the evaluation as a record st: *)
(*   scopes  the SymbolTable objects, scopes[1] the global symbol table,   *)
(*           each [symbols, parent] with parent = 0 for None               *)
(*   fibers  the Fiber objects                                             *)
(*   frames  Interpreter.stack_trace.frames (function names)               *)
(*   out     what builtin print has written                                *)
(*   channels the Channel objects, each [name, queue]                      *)
(*   tables  the Table objects: Table.data, a function from keys to values *)
(*           and the Vector objects: Vector.data, a sequence of values     *)
(*   threads the threads started by `run concurrently`                     *)
(*   blocked TRUE when the evaluation has reached a queue operation that   *)
(*           does not return in the current state (the thread waits there) *)
(* The result of a visit is [exc, v, st]: v is the returned object, or the *)
(* raised exception when exc is TRUE.                                      *)
(***************************************************************************)
Returned(v, st) == [exc |-> FALSE, v |-> v, st |-> st]
Exception(type, message, value) ==
  [type |-> type, error_type |-> "", message |-> message, value |-> value]
Raised(type, message, st) ==
  [exc |-> TRUE, v |-> Exception(type, message, PyNone), st |-> st]
\* raise ReturnException(value)
ReturnException(value, st) ==
  [exc |-> TRUE, v |-> Exception("ReturnException", <<>>, value), st |-> st]

\* SymbolTable.get
RECURSIVE SymbolTable_get(_, _, _)
SymbolTable_get(scopes, ctx, name) ==
  LET s == scopes[ctx]
      value == IF name \in DOMAIN s.symbols THEN s.symbols[name] ELSE PyNone
  IN IF value = PyNone /\ s.parent # 0
     THEN SymbolTable_get(scopes, s.parent, name)
     ELSE value

\* dict[key] = value
DictSet(dict, key, value) ==
  [n \in (DOMAIN dict) \cup {key} |-> IF n = key THEN value ELSE dict[n]]

\* SymbolTable.set
SymbolTable_set(scopes, ctx, name, value) ==
  [scopes EXCEPT ![ctx].symbols =
     [n \in (DOMAIN @) \cup {name} |-> IF n = name THEN value ELSE @[n]]]

\* SymbolTable(parent=ctx): the heap with the new object appended
SymbolTable(scopes, parent) ==
  Append(scopes, [symbols |-> << >>, parent |-> parent])

\* StackTrace.push_frame: None (FALSE) when the frame limit is reached
push_frame_ok(frames) == Len(frames) < max_frames
push_frame(frames, function_name) ==
  IF push_frame_ok(frames) THEN Append(frames, function_name) ELSE frames

\* StackTrace.pop_frame
pop_frame(frames) ==
  IF frames # <<>> THEN SubSeq(frames, 1, Len(frames) - 1) ELSE frames


(***************************************************************************)
(* Interpreter (engage_interpreter.py).                                    *)
(***************************************************************************)
\* the error_type Interpreter.visit gives a wrapped Python exception
error_type_of(type) ==
  CASE type = "NameError" -> "Name Error"
    [] type = "TypeError" -> "Type Error"
    [] type = "ZeroDivisionError" -> "Division Error"
    [] type = "AttributeError" -> "Attribute Error"
    [] type = "IndexError" -> "Index Error"
    [] OTHER -> "Runtime Error"

\* the except clause of Interpreter.visit: every exception that is not an
\* EngageRuntimeError is replaced by a new EngageRuntimeError(message=str(e))
enhance(e) ==
  IF e.type # "EngageRuntimeError"
  THEN [type |-> "EngageRuntimeError", error_type |-> error_type_of(e.type),
        message |-> e.message, value |-> PyNone]
  ELSE e

\* builtin_print: writes arg.value of every argument
builtin_print(args, st) ==
  Returned(Number(0),
           [st EXCEPT !.out = @ \o [i \in 1..Len(args) |-> args[i].value]])

\* the arithmetic and comparison operators of visit_BinOpNode
BinOpValue(op, left, right, st) ==
  LET same == left.t = right.t
      nums == left.t = "Number" /\ right.t = "Number"
      eq   == same /\ left.value = right.value
  IN CASE op \in {"is", "=="} /\ left.t \in {"Number", "String"} /\ right.t \in {"Number", "String"} ->
            Returned(Number(IF eq THEN 1 ELSE 0), st)
       [] op \in {"is not", "!="} /\ left.t \in {"Number", "String"} /\ right.t \in {"Number", "String"} ->
            Returned(Number(IF eq THEN 0 ELSE 1), st)
       [] op = "and" -> Returned(Number(IF is_true(left, st) /\ is_true(right, st) THEN 1 ELSE 0), st)
       [] op = "or" -> Returned(Number(IF is_true(left, st) \/ is_true(right, st) THEN 1 ELSE 0), st)
       [] op \in {"plus", "+"} /\ nums -> Returned(Number(left.value + right.value), st)
       [] op \in {"minus", "-"} /\ nums -> Returned(Number(left.value - right.value), st)
       [] op \in {"times", "*"} /\ nums -> Returned(Number(left.value * right.value), st)
       [] op \in {"divided by", "/"} /\ nums ->
            IF right.value = 0
            THEN Raised("ZeroDivisionError", <<"Division by zero">>, st)
            ELSE Returned(Number(left.value \div right.value), st)
       [] op \in {"is greater than", ">"} /\ nums ->
            Returned(Number(IF left.value > right.value THEN 1 ELSE 0), st)
       [] op \in {"is less than", "<"} /\ nums ->
            Returned(Number(IF left.value < right.value THEN 1 ELSE 0), st)
       [] OTHER -> Raised("TypeError", <<"Unsupported operand types for", op>>, st)

RECURSIVE visit(_, _, _)
RECURSIVE visit_method(_, _, _)
RECURSIVE visit_args(_, _, _, _, _)
RECURSIVE execute_user_function(_, _, _, _, _)
RECURSIVE record_members(_, _, _, _, _, _)
RECURSIVE instance_properties(_, _, _, _, _)
RECURSIVE visit_MemberAccessNode(_, _, _)
RECURSIVE function_body(_, _, _, _, _)
RECURSIVE visit_block(_, _, _, _, _)
RECURSIVE visit_IfNode(_, _, _, _)
RECURSIVE visit_WhileNode(_, _, _, _)
RECURSIVE execute_fiber(_, _, _)
RECURSIVE fiber_loop(_, _)

\* Interpreter.visit: dispatch, and the wrapping of exceptions
visit(node, context, st) ==
  LET r == visit_method(node, context, st)
  IN IF r.exc THEN [r EXCEPT !.v = enhance(@)] ELSE r

visit_VarAssignNode(node, context, st) ==
  LET r == visit(node.value_node, context, st)
  IN IF r.exc THEN r
     ELSE Returned(r.v, [r.st EXCEPT !.scopes =
                           SymbolTable_set(@, context, node.name, r.v)])

\* the scope of the chain of ctx that binds name (ctx when none does)
RECURSIVE binding_scope(_, _, _)
binding_scope(scopes, ctx, name) ==
  IF name \in DOMAIN scopes[ctx].symbols \/ scopes[ctx].parent = 0 THEN ctx
  ELSE binding_scope(scopes, scopes[ctx].parent, name)

\* visit_SetNode storing the value in the scope that binds the name
visit_SetNode_in_binding_scope(node, context, st) ==
  LET r == visit(node.value_node, context, st)
  IN IF r.exc THEN r
     ELSE IF node.target_node.k = "VarAccessNode"
     THEN LET var_name == node.target_node.name
          IN IF SymbolTable_get(r.st.scopes, context, var_name) = PyNone
             THEN Raised("NameError", <<"Cannot set before let", var_name>>, r.st)
             ELSE Returned(r.v, [r.st EXCEPT !.scopes =
                                   SymbolTable_set(@, binding_scope(@, context, var_name),
                                                   var_name, r.v)])
     ELSE Raised("TypeError", <<"Invalid target for 'set' statement.">>, r.st)

visit_SetNode(node, context, st) ==
  LET r == visit(node.value_node, context, st)
  IN IF r.exc THEN r
     ELSE IF node.target_node.k = "VarAccessNode"
     THEN LET var_name == node.target_node.name
          IN IF SymbolTable_get(r.st.scopes, context, var_name) = PyNone
             THEN Raised("NameError", <<"Cannot set before let", var_name>>, r.st)
             ELSE Returned(r.v, [r.st EXCEPT !.scopes =
                                   SymbolTable_set(@, context, var_name, r.v)])
     ELSE Raised("TypeError", <<"Invalid target for 'set' statement.">>, r.st)

visit_VarAccessNode(node, context, st) ==
  LET value == SymbolTable_get(st.scopes, context, node.name)
  IN IF value = PyNone
     THEN Raised("NameError", <<"is not defined", node.name>>, st)
     ELSE Returned(value, st)

visit_BinOpNode(node, context, st) ==
  IF node.op = "or return error"
  THEN LET left == visit(node.left_node, context, st)
       IN IF left.exc THEN left
          ELSE IF left.v.t = "ResultValue" /\ left.v.type = "Error"
          THEN ReturnException(left.v, left.st)
          ELSE left
  ELSE IF node.op = "is an"
  THEN LET left == visit(node.left_node, context, st)
       IN IF left.exc THEN left
          ELSE Returned(Number(IF left.v.t = "ResultValue"
                                  /\ left.v.type = node.right_node.name
                               THEN 1 ELSE 0), left.st)
  ELSE LET left == visit(node.left_node, context, st)
       IN IF left.exc THEN left
          ELSE LET right == visit(node.right_node, context, left.st)
               IN IF right.exc THEN right
                  ELSE BinOpValue(node.op, left.v, right.v, right.st)

visit_UnaryOpNode(node, context, st) ==
  LET r == visit(node.node, context, st)
  IN IF r.exc THEN r
     ELSE IF node.op = "call"
     THEN IF r.v.t # "Fiber"
          THEN Raised("TypeError", <<"Can only 'call' a fiber">>, r.st)
          ELSE execute_fiber(r.v.id, context, r.st)
     ELSE IF node.op = "not"
     THEN Returned(Number(IF is_true(r.v, r.st) THEN 0 ELSE 1), r.st)
     ELSE IF node.op = "the ok value of"
     THEN IF r.v.t # "ResultValue" \/ r.v.type # "Ok"
          THEN Raised("TypeError", <<"Cannot extract 'ok value'">>, r.st)
          ELSE Returned(IF r.v.value # PyNone THEN r.v.value ELSE NoneValue, r.st)
     ELSE IF node.op = "the error message of"
     THEN IF r.v.t # "ResultValue" \/ r.v.type # "Error"
          THEN Raised("TypeError", <<"Cannot extract 'error message'">>, r.st)
          ELSE Returned(IF r.v.value # PyNone THEN r.v.value ELSE NoneValue, r.st)
     ELSE Raised("TypeError", <<"Unsupported unary operator", node.op>>, r.st)

visit_ResultNode(node, context, st) ==
  IF node.value_node # PyNone
  THEN LET r == visit(node.value_node, context, st)
       IN IF r.exc THEN r ELSE Returned(ResultValue(node.type, r.v), r.st)
  ELSE Returned(ResultValue(node.type, PyNone), st)

visit_FuncDefNode(node, context, st) ==
  LET func_value == Function(node.name, node.body_nodes, node.param_tokens)
  IN Returned(func_value, [st EXCEPT !.scopes =
                             SymbolTable_set(@, context, node.name, func_value)])

\* the list comprehension of visit_FuncCallNode: the arguments from i on,
\* left to right, appended to args
visit_args(arg_nodes, i, args, context, st) ==
  IF i > Len(arg_nodes) THEN Returned(args, st)
  ELSE LET r == visit(arg_nodes[i], context, st)
       IN IF r.exc THEN r
          ELSE visit_args(arg_nodes, i + 1, Append(args, r.v), context, r.st)

\* visit_FuncCallNode once the callee has been visited
call_callee(args, context, callee) ==
  IF callee.exc THEN callee
  ELSE IF callee.v.t = "BoundMethod"
  THEN execute_user_function(callee.v.method, args, context, callee.st,
                             callee.v.instance)
  ELSE IF callee.v.t = "BuiltInFunction"
  THEN builtin_print(args, callee.st)
  ELSE IF callee.v.t = "Function"
  THEN execute_user_function(callee.v, args, context, callee.st, PyNone)
  ELSE Raised("TypeError", <<"is not a function">>, callee.st)

\* visit_FuncCallNode when node_to_call is a MemberAccessNode, once its
\* instance_node has been visited: the method of a record instance is
\* called, anything else is visited again as the callee
call_member(node, args, context, instance) ==
  IF instance.exc THEN instance
  ELSE IF instance.v.t = "RecordInstance"
  THEN IF node.node_to_call.member \in DOMAIN instance.v.record_class.methods
       THEN execute_user_function(
              instance.v.record_class.methods[node.node_to_call.member],
              args, context, instance.st, instance.v)
       ELSE Raised("AttributeError", <<"has no method", node.node_to_call.member>>,
                   instance.st)
  ELSE call_callee(args, context, visit(node.node_to_call, context, instance.st))

\* visit_FuncCallNode once the arguments have been visited
call_with_args(node, context, a) ==
  IF a.exc THEN a
  ELSE IF node.node_to_call.k = "MemberAccessNode"
  THEN call_member(node, a.v, context,
                   visit(node.node_to_call.instance_node, context, a.st))
  ELSE call_callee(a.v, context, visit(node.node_to_call, context, a.st))

visit_FuncCallNode(node, context, st) ==
  call_with_args(node, context, visit_args(node.arg_nodes, 1, <<>>, context, st))

\* the statement loop of execute_user_function, from statement i on, with
\* the try/except around it; result is the value of the last statement
function_body(func, i, result, func_context, st) ==
  IF i > Len(func.body_node)
  THEN Returned(IF result # PyNone THEN result ELSE Number(0),
                [st EXCEPT !.frames = pop_frame(@)])
  ELSE LET r == visit(func.body_node[i], func_context, st)
       IN IF r.exc
          THEN IF r.v.type = "ReturnException"
               THEN Returned(r.v.value, [r.st EXCEPT !.frames = pop_frame(@)])
               ELSE r
          ELSE IF r.v.t = "ReturnValue"
          THEN Returned(r.v.value, [r.st EXCEPT !.frames = pop_frame(@)])
          ELSE function_body(func, i + 1, r.v, func_context, r.st)

\* the symbols of the call scope: self, when the call is a method's, then
\* the arguments by the parameter names, a later one over an earlier one
call_symbols(func, args, instance) ==
  [n \in {func.arg_names[i] : i \in 1..Len(args)}
          \cup (IF instance # PyNone THEN {"self"} ELSE {}) |->
     IF \E i \in 1..Len(args) : func.arg_names[i] = n
     THEN args[CHOOSE i \in 1..Len(args) :
                 /\ func.arg_names[i] = n
                 /\ \A j \in i + 1..Len(args) : func.arg_names[j] # n]
     ELSE instance]

\* execute_user_function with the call scope created and the frame pushed
\* before the number of arguments is tested
execute_user_function_pushes_first(func, args, context, st, instance) ==
  IF Len(args) # Len(func.arg_names)
  THEN Raised("TypeError",
              <<"takes", Len(func.arg_names), "arguments but given", Len(args)>>,
              [st EXCEPT !.scopes = SymbolTable(@, context),
                         !.frames = push_frame(@, func.name)])
  ELSE function_body(func, 1, PyNone, Len(st.scopes) + 1,
                     [st EXCEPT !.scopes = Append(@, [symbols |-> call_symbols(func, args, instance),
                                                      parent |-> context]),
                                !.frames = push_frame(@, func.name)])

execute_user_function(func, args, context, st, instance) ==
  IF Len(args) # Len(func.arg_names)
  THEN Raised("TypeError", <<"takes", Len(func.arg_names), "arguments but given", Len(args)>>, st)
  ELSE LET func_context == Len(st.scopes) + 1
           bound == call_symbols(func, args, instance)
           scopes1 == Append(st.scopes, [symbols |-> bound, parent |-> context])
       IN IF ~push_frame_ok(st.frames)
          THEN Raised("RuntimeError", <<"Maximum call stack depth exceeded">>,
                      [st EXCEPT !.scopes = scopes1])
          ELSE function_body(func, 1, PyNone, func_context,
                             [st EXCEPT !.scopes = scopes1,
                                        !.frames = push_frame(@, func.name)])

\* the inner statement loop of visit_IfNode and visit_WhileNode, from
\* statement i on: stops at the first ReturnValue or YieldValue
visit_block(statements, i, result, context, st) ==
  IF i > Len(statements) THEN Returned(result, st)
  ELSE LET r == visit(statements[i], context, st)
       IN IF r.exc THEN r
          ELSE IF r.v.t \in {"ReturnValue", "YieldValue"} THEN r
          ELSE visit_block(statements, i + 1, r.v, context, r.st)

\* visit_IfNode, from case c on
visit_IfNode(node, c, context, st) ==
  IF c > Len(node.cases)
  THEN IF node.else_case # <<>>
       THEN LET b == visit_block(node.else_case, 1, PyNone, context, st)
            IN IF b.exc \/ b.v # PyNone THEN b ELSE Returned(Number(0), b.st)
       ELSE Returned(Number(0), st)
  ELSE LET cond == visit(node.cases[c][1], context, st)
       IN IF cond.exc THEN cond
          ELSE IF is_true(cond.v, cond.st)
          THEN LET b == visit_block(node.cases[c][2], 1, PyNone, context, cond.st)
               IN IF b.exc \/ b.v # PyNone THEN b ELSE Returned(Number(0), b.st)
          ELSE visit_IfNode(node, c + 1, context, cond.st)

\* visit_WhileNode, from the evaluation of the condition on
visit_WhileNode(node, result, context, st) ==
  LET cond == visit(node.condition_node, context, st)
  IN IF cond.exc THEN cond
     ELSE IF ~is_true(cond.v, cond.st) THEN Returned(result, cond.st)
     ELSE LET b == visit_block(node.body_nodes, 1, result, context, cond.st)
          IN IF b.exc THEN b
             ELSE IF b.v.t \in {"ReturnValue", "YieldValue"} THEN b
             ELSE visit_WhileNode(node, b.v, context, b.st)

\* visit_ReturnNode giving the value itself, no ReturnValue around it
visit_ReturnNode_unwrapped(node, context, st) ==
  IF node.node_to_return # PyNone
  THEN visit(node.node_to_return, context, st)
  ELSE Returned(Number(0), st)

\* visit_RecordDefNode: the loop goes on with the value visited for the
\* default property members[i]
record_property(node, i, methods, default_props, temp_context, r) ==
  IF r.exc THEN r
  ELSE record_members(node, i + 1, methods,
                      DictSet(default_props, node.members[i].name, r.v),
                      temp_context, r.st)

\* visit_NewInstanceNode: the loop goes on with the value visited for
\* properties[i], set in the context of the instance
instance_property(node, i, instance, context, r) ==
  IF r.exc THEN r
  ELSE instance_properties(node, i + 1, instance, context,
         [r.st EXCEPT !.scopes =
            SymbolTable_set(@, instance.context, node.properties[i][1], r.v)])

\* visit_RecordDefNode: the loop over the members from member i on; a
\* FuncDefNode is a method, a VarAssignNode or PropertyDefNode a default
\* property whose value is visited in temp_context
record_members(node, i, methods, default_props, temp_context, st) ==
  IF i > Len(node.members)
  THEN Returned(Record(node.name, methods, default_props),
                [st EXCEPT !.scopes =
                   SymbolTable_set(@, temp_context.parent, node.name,
                                   Record(node.name, methods, default_props))])
  ELSE IF node.members[i].k = "FuncDefNode"
  THEN record_members(node, i + 1,
         [n \in DOMAIN methods \cup {node.members[i].name} |->
            IF n = node.members[i].name
            THEN Function(n, node.members[i].body_nodes, node.members[i].param_tokens)
            ELSE methods[n]],
         default_props, temp_context, st)
  ELSE IF node.members[i].k = "VarAssignNode"
  THEN record_property(node, i, methods, default_props, temp_context,
                       visit(node.members[i].value_node, temp_context.id, st))
  ELSE IF node.members[i].k = "PropertyDefNode"
  THEN IF node.members[i].default_value # PyNone
       THEN record_property(node, i, methods, default_props, temp_context,
                            visit(node.members[i].default_value, temp_context.id, st))
       ELSE record_property(node, i, methods, default_props, temp_context,
                            Returned(NoneValue, st))
  ELSE record_members(node, i + 1, methods, default_props, temp_context, st)

visit_RecordDefNode(node, context, st) ==
  record_members(node, 1, <<>>, <<>>,
                 [id |-> Len(st.scopes) + 1, parent |-> context],
                 [st EXCEPT !.scopes = SymbolTable(@, context)])

\* visit_NewInstanceNode: the loop over node.properties from property i on
instance_properties(node, i, instance, context, st) ==
  IF i > Len(node.properties) THEN Returned(instance, st)
  ELSE instance_property(node, i, instance, context,
                         visit(node.properties[i][2], context, st))

\* visit_NewInstanceNode with an instance scope that starts empty
new_instance_without_defaults(node, context, st, record_class) ==
  IF record_class.t # "Record"
  THEN Raised("TypeError", <<"is not a record type.", node.name>>, st)
  ELSE instance_properties(node, 1, RecordInstance(record_class, Len(st.scopes) + 1),
                           context,
                           [st EXCEPT !.scopes =
                              Append(@, [symbols |-> << >>, parent |-> context])])

\* visit_NewInstanceNode for a record: the instance scope holds the default
\* properties, then the properties of the node
new_instance(node, context, st, record_class) ==
  IF record_class.t # "Record"
  THEN Raised("TypeError", <<"is not a record type.", node.name>>, st)
  ELSE instance_properties(node, 1, RecordInstance(record_class, Len(st.scopes) + 1),
                           context,
                           [st EXCEPT !.scopes =
                              Append(@, [symbols |-> record_class.default_props,
                                         parent |-> context])])

visit_SelfNode(node, context, st) ==
  IF SymbolTable_get(st.scopes, context, "self") = PyNone
  THEN Raised("NameError", <<"'self' can only be used inside a method.">>, st)
  ELSE Returned(SymbolTable_get(st.scopes, context, "self"), st)

\* visit_MemberAccessNode once the instance has been visited (members of
\* Table, Vector and module objects are not in the model)
member_of(node, context, instance) ==
  IF instance.exc THEN instance
  ELSE IF instance.v.t = "RecordInstance"
  THEN IF SymbolTable_get(instance.st.scopes, instance.v.context, node.member) # PyNone
       THEN Returned(SymbolTable_get(instance.st.scopes, instance.v.context,
                                     node.member), instance.st)
       ELSE IF node.member \in DOMAIN instance.v.record_class.methods
       THEN IF Len(instance.v.record_class.methods[node.member].arg_names) = 0
            THEN execute_user_function(instance.v.record_class.methods[node.member],
                                       <<>>, context, instance.st, instance.v)
            ELSE Returned(BoundMethod(instance.v,
                                      instance.v.record_class.methods[node.member]),
                          instance.st)
       ELSE Raised("AttributeError", <<"has no member", node.member>>, instance.st)
  ELSE Raised("TypeError", <<"Cannot access members of type", instance.v.t>>,
              instance.st)

visit_MemberAccessNode(node, context, st) ==
  member_of(node, context, visit(node.instance_node, context, st))

visit_ReturnNode(node, context, st) ==
  IF node.node_to_return # PyNone
  THEN LET r == visit(node.node_to_return, context, st)
       IN IF r.exc THEN r ELSE Returned(ReturnValue(r.v), r.st)
  ELSE Returned(ReturnValue(Number(0)), st)

visit_YieldNode(node, context, st) ==
  IF node.value_node # PyNone
  THEN LET r == visit(node.value_node, context, st)
       IN IF r.exc THEN r ELSE Returned(YieldValue(r.v), r.st)
  ELSE Returned(YieldValue(Number(0)), st)

\* visit_FiberDefNode: Fiber(name, body) has context None (0), ip 0, is_done False
visit_FiberDefNode(node, context, st) ==
  LET id == Len(st.fibers) + 1
      fiber == [name |-> node.name, body_node |-> node.body_nodes,
                context |-> 0, ip |-> 0, is_done |-> FALSE]
  IN Returned(Fiber(id),
              [st EXCEPT !.fibers = Append(@, fiber),
                         !.scopes = SymbolTable_set(@, context, node.name, Fiber(id))])

\* fiber_loop with the `fiber.ip += 1` of the yield branch left out
fiber_loop_yield_keeps_ip(id, st) ==
  LET fiber == st.fibers[id]
  IN IF fiber.ip < Len(fiber.body_node)
     THEN LET r == visit(fiber.body_node[fiber.ip + 1], fiber.context, st)
          IN IF r.exc THEN r
             ELSE IF r.v.t = "YieldValue"
             THEN Returned(r.v.value, r.st)
             ELSE IF r.v.t = "ReturnValue"
             THEN Returned(r.v.value, [r.st EXCEPT !.fibers[id].is_done = TRUE])
             ELSE fiber_loop(id, [r.st EXCEPT !.fibers[id].ip = @ + 1])
     ELSE Returned(Number(0), [st EXCEPT !.fibers[id].is_done = TRUE])

\* the while loop of execute_fiber
fiber_loop(id, st) ==
  LET fiber == st.fibers[id]
  IN IF fiber.ip < Len(fiber.body_node)
     THEN LET r == visit(fiber.body_node[fiber.ip + 1], fiber.context, st)
          IN IF r.exc THEN r
             ELSE IF r.v.t = "YieldValue"
             THEN Returned(r.v.value, [r.st EXCEPT !.fibers[id].ip = @ + 1])
             ELSE IF r.v.t = "ReturnValue"
             THEN Returned(r.v.value, [r.st EXCEPT !.fibers[id].is_done = TRUE])
             ELSE fiber_loop(id, [r.st EXCEPT !.fibers[id].ip = @ + 1])
     ELSE Returned(Number(0), [st EXCEPT !.fibers[id].is_done = TRUE])

\* execute_fiber with the `if fiber.is_done` test left out
execute_fiber_ignores_done(id, context, st) ==
  IF st.fibers[id].context = 0
  THEN fiber_loop(id, [st EXCEPT !.scopes = SymbolTable(@, context),
                                 !.fibers[id].context = Len(st.scopes) + 1])
  ELSE fiber_loop(id, st)

execute_fiber(id, context, st) ==
  IF st.fibers[id].is_done THEN Returned(Number(0), st)
  ELSE IF st.fibers[id].context = 0
  THEN fiber_loop(id, [st EXCEPT !.scopes = SymbolTable(@, context),
                                 !.fibers[id].context = Len(st.scopes) + 1])
  ELSE fiber_loop(id, st)

\* Channel.__init__: queue.Queue() with its default maxsize, an unbounded queue
maxsize == 0

\* queue.Queue.put waits while a bounded queue is full
Queue_put_waits_when_nonempty(q) == q # <<>>
Queue_put_waits(q) == maxsize > 0 /\ Len(q) >= maxsize
\* queue.Queue.put: the item goes to the end of the queue
Queue_put_front(q, item) == <<item>> \o q
Queue_put(q, item) == Append(q, item)
\* queue.Queue.get waits while the queue is empty
Queue_get_waits(q) == q = <<>>
\* queue.Queue.get: takes the item at the front of the queue
Queue_get_peek(q) == [item |-> Head(q), queue |-> q]
Queue_get_last(q) == [item |-> q[Len(q)], queue |-> SubSeq(q, 1, Len(q) - 1)]
Queue_get(q) == [item |-> Head(q), queue |-> Tail(q)]

visit_ChannelNode(node, context, st) ==
  LET channel == Channel(Len(st.channels) + 1)
  IN Returned(channel,
              [st EXCEPT !.channels = Append(@, [name |-> node.name, queue |-> <<>>]),
                         !.scopes = SymbolTable_set(@, context, node.name, channel)])

visit_SendNode(node, context, st) ==
  LET channel == visit(node.channel_node, context, st)
  IN IF channel.exc THEN channel
     ELSE IF channel.v.t # "Channel"
     THEN Raised("TypeError", <<"Can only send to a channel">>, channel.st)
     ELSE LET value == visit(node.value_node, context, channel.st)
          IN IF value.exc THEN value
             ELSE IF Queue_put_waits(value.st.channels[channel.v.id].queue)
             THEN Returned(value.v, [value.st EXCEPT !.blocked = TRUE])
             ELSE Returned(value.v,
                           [value.st EXCEPT !.channels[channel.v.id].queue =
                                              Queue_put(@, value.v)])

visit_ReceiveNode(node, context, st) ==
  LET channel == visit(node.channel_node, context, st)
  IN IF channel.exc THEN channel
     ELSE IF channel.v.t # "Channel"
     THEN Raised("TypeError", <<"Can only receive from a channel">>, channel.st)
     ELSE IF Queue_get_waits(channel.st.channels[channel.v.id].queue)
     THEN Returned(NoneValue, [channel.st EXCEPT !.blocked = TRUE])
     ELSE LET got == Queue_get(channel.st.channels[channel.v.id].queue)
          IN Returned(got.item,
                      [channel.st EXCEPT !.channels[channel.v.id].queue = got.queue])

\* Table(): a new object with empty data
visit_TableNode(node, context, st) ==
  Returned(Table(Len(st.tables) + 1), [st EXCEPT !.tables = Append(@, << >>)])

\* Table.get: None when the key is absent
Table_get(tables, id, key) ==
  IF key \in DOMAIN tables[id] THEN tables[id][key] ELSE PyNone

\* Table.set with every write dropped
Table_set_dropped(tables, id, key, value) == tables
\* Table.set: self.data[key] = value
Table_set(tables, id, key, value) ==
  [tables EXCEPT ![id] =
     [k \in (DOMAIN @) \cup {key} |-> IF k = key THEN value ELSE @[k]]]

\* Vector(): a new object with empty data
visit_VectorNode(node, context, st) ==
  Returned(Vector(Len(st.tables) + 1), [st EXCEPT !.tables = Append(@, << >>)])

\* visit_NewInstanceNode: Table and Vector are built in, any other name is
\* looked up as a record
visit_NewInstanceNode(node, context, st) ==
  IF node.name = "Table" THEN visit_TableNode(node, context, st)
  ELSE IF node.name = "Vector" THEN visit_VectorNode(node, context, st)
  ELSE new_instance(node, context, st, SymbolTable_get(st.scopes, context, node.name))

\* Vector.get: None when the index is out of bounds; the first item has
\* index 0
Vector_get(tables, id, index) ==
  IF 0 <= index /\ index < Len(tables[id]) THEN tables[id][index + 1] ELSE PyNone

\* Vector.set from the test of the sign on: the data is extended with None
\* up to the index
Vector_set(tables, id, index, value) ==
  [tables EXCEPT ![id] =
     [i \in 1..(IF index + 1 > Len(@) THEN index + 1 ELSE Len(@)) |->
        IF i = index + 1 THEN value ELSE IF i <= Len(@) THEN @[i] ELSE PyNone]]

visit_IndexAccessNode(node, context, st) ==
  LET obj == visit(node.object_node, context, st)
  IN IF obj.exc THEN obj
     ELSE LET index == visit(node.index_node, context, obj.st)
          IN IF index.exc THEN index
             ELSE IF obj.v.t = "Table"
             THEN IF index.v.t # "String"
                  THEN Raised("TypeError", <<"Table keys must be strings">>, index.st)
                  ELSE LET value == Table_get(index.st.tables, obj.v.id, index.v.value)
                       IN Returned(IF value # PyNone THEN value ELSE NoneValue, index.st)
             ELSE IF obj.v.t = "Vector"
             THEN IF index.v.t # "Number"
                  THEN Raised("TypeError", <<"Vector indices must be numbers">>, index.st)
                  ELSE LET value == Vector_get(index.st.tables, obj.v.id, index.v.value)
                       IN Returned(IF value # PyNone THEN value ELSE NoneValue, index.st)
             ELSE Raised("TypeError", <<"Cannot use bracket notation on", obj.v.t>>,
                         index.st)

\* IndexAssign_check with the test of the key of a Table inverted
IndexAssign_check_inverted(a) ==
  IF a.exc THEN a
  ELSE IF a.v[1].t = "Table"
  THEN IF a.v[2].t = "String"
       THEN Raised("TypeError", <<"Table keys must be strings">>, a.st)
       ELSE Returned([t |-> "Store", obj |-> a.v[1], key |-> a.v[2].value,
                      value |-> a.v[3]], a.st)
  ELSE IF a.v[1].t = "Vector"
  THEN IF a.v[2].t # "Number"
       THEN Raised("TypeError", <<"Vector indices must be numbers">>, a.st)
       ELSE Returned([t |-> "Store", obj |-> a.v[1], key |-> a.v[2].value,
                      value |-> a.v[3]], a.st)
  ELSE Raised("TypeError", <<"Cannot use bracket notation assignment on", a.v[1].t>>,
              a.st)

\* the type checks of visit_IndexAssignNode on the evaluated operands
\* a.v = <<obj, index, value>>
IndexAssign_check(a) ==
  IF a.exc THEN a
  ELSE IF a.v[1].t = "Table"
  THEN IF a.v[2].t # "String"
       THEN Raised("TypeError", <<"Table keys must be strings">>, a.st)
       ELSE Returned([t |-> "Store", obj |-> a.v[1], key |-> a.v[2].value,
                      value |-> a.v[3]], a.st)
  ELSE IF a.v[1].t = "Vector"
  THEN IF a.v[2].t # "Number"
       THEN Raised("TypeError", <<"Vector indices must be numbers">>, a.st)
       ELSE Returned([t |-> "Store", obj |-> a.v[1], key |-> a.v[2].value,
                      value |-> a.v[3]], a.st)
  ELSE Raised("TypeError", <<"Cannot use bracket notation assignment on", a.v[1].t>>,
              a.st)

\* visit_IndexAssignNode up to the call of obj.set: the object, the index and
\* the value are evaluated in that order and checked; the result is the write
\* to perform
IndexAssign_eval(node, context, st) ==
  IndexAssign_check(visit_args(<<node.object_node, node.index_node, node.value_node>>,
                               1, <<>>, context, st))

\* visit_IndexAssignNode from the call of obj.set on
IndexAssign_store(store, st) ==
  IF store.obj.t = "Vector"
  THEN IF store.key < 0
       THEN Raised("IndexError", <<"Vector index cannot be negative">>, st)
       ELSE Returned(store.value,
                     [st EXCEPT !.tables =
                        Vector_set(@, store.obj.id, store.key, store.value)])
  ELSE Returned(store.value,
                [st EXCEPT !.tables = Table_set(@, store.obj.id, store.key, store.value)])

visit_IndexAssignNode(node, context, st) ==
  LET e == IndexAssign_eval(node, context, st)
  IN IF e.exc THEN e ELSE IndexAssign_store(e.v, e.st)

\* a thread running the statements of body in the scope context:
\*   ip      index in body of the next statement of the body
\*   inner   the statements still to run inside the body statement before ip
\*           (the rest of the while loops it is in)
\*   pending the write an index assignment has evaluated and not yet done
\*   state   "running", "waiting" (inside a queue operation), "done", or
\*           "failed" (ended by an exception)
\*   frames  the stack trace of the thread's Interpreter
Thread(context, body, fr) ==
  [context |-> context, body |-> body, ip |-> 1, inner |-> <<>>,
   pending |-> PyNone, state |-> IF body = <<>> THEN "done" ELSE "running",
   frames |-> fr]

\* visit_TaskNode with the body run by the spawning thread itself
visit_TaskNode_inline(node, context, st) ==
  LET r == visit_block(node.body_nodes, 1, Number(0), Len(st.scopes) + 1,
                       [st EXCEPT !.scopes = SymbolTable(@, context)])
  IN IF r.exc THEN r ELSE Returned(Number(0), r.st)
\* visit_TaskNode: starts a thread on the body, in a new scope whose parent
\* is the spawner's scope, and returns Number(0) at once
visit_TaskNode(node, context, st) ==
  Returned(Number(0),
           [st EXCEPT !.scopes = SymbolTable(@, context),
                      !.threads = Append(@, Thread(Len(st.scopes) + 1,
                                                   node.body_nodes, <<>>))])

\* getattr(self, 'visit_' + type(node).__name__, self.no_visit_method)
visit_method(node, context, st) ==
  CASE node.k = "NumberNode" -> Returned(Number(node.value), st)
    [] node.k = "StringNode" -> Returned(String(node.value), st)
    [] node.k = "VarAssignNode" -> visit_VarAssignNode(node, context, st)
    [] node.k = "SetNode" -> visit_SetNode(node, context, st)
    [] node.k = "VarAccessNode" -> visit_VarAccessNode(node, context, st)
    [] node.k = "BinOpNode" -> visit_BinOpNode(node, context, st)
    [] node.k = "UnaryOpNode" -> visit_UnaryOpNode(node, context, st)
    [] node.k = "ResultNode" -> visit_ResultNode(node, context, st)
    [] node.k = "FuncDefNode" -> visit_FuncDefNode(node, context, st)
    [] node.k = "FuncCallNode" -> visit_FuncCallNode(node, context, st)
    [] node.k = "IfNode" -> visit_IfNode(node, 1, context, st)
    [] node.k = "WhileNode" -> visit_WhileNode(node, Number(0), context, st)
    [] node.k = "ReturnNode" -> visit_ReturnNode(node, context, st)
    [] node.k = "RecordDefNode" -> visit_RecordDefNode(node, context, st)
    [] node.k = "NewInstanceNode" -> visit_NewInstanceNode(node, context, st)
    [] node.k = "MemberAccessNode" -> visit_MemberAccessNode(node, context, st)
    [] node.k = "SelfNode" -> visit_SelfNode(node, context, st)
    [] node.k = "YieldNode" -> visit_YieldNode(node, context, st)
    [] node.k = "FiberDefNode" -> visit_FiberDefNode(node, context, st)
    [] node.k = "TaskNode" -> visit_TaskNode(node, context, st)
    [] node.k = "ChannelNode" -> visit_ChannelNode(node, context, st)
    [] node.k = "SendNode" -> visit_SendNode(node, context, st)
    [] node.k = "ReceiveNode" -> visit_ReceiveNode(node, context, st)
    [] node.k = "TableNode" -> visit_TableNode(node, context, st)
    [] node.k = "VectorNode" -> visit_VectorNode(node, context, st)
    [] node.k = "IndexAccessNode" -> visit_IndexAccessNode(node, context, st)
    [] node.k = "IndexAssignNode" -> visit_IndexAssignNode(node, context, st)
    [] OTHER -> Raised("Exception", <<"No visit method defined", node.k>>, st)


(***************************************************************************)
(* Programs the interpreter is run on.                                     *)
(***************************************************************************)
PrintStmt(n) == FuncCallNode(VarAccessNode("print"), <<NumberNode(n)>>)

\* a top-level statement that succeeds
StmtOk == VarAssignNode("x", NumberNode(1))
\* top-level statements that raise a runtime error: a ZeroDivisionError at an
\* odd position i, a NameError at an even one
StmtBad(i) ==
  IF i % 2 = 1
  THEN VarAssignNode("x", BinOpNode(NumberNode(1), "divided by", NumberNode(0)))
  ELSE VarAssignNode("x", VarAccessNode("undefined"))

\* programs of ProgLen statements, each one succeeding or raising
SoftFailPrograms ==
  { [i \in 1..ProgLen |-> IF bad[i] THEN StmtBad(i) ELSE StmtOk] :
      bad \in [1..ProgLen -> BOOLEAN] }

\* the statement at position i of a fiber body, by kind; every statement
\* prints or yields numbers that name its position
FiberStmt(kind, i) ==
  CASE kind = "yield" -> YieldNode(NumberNode(10 * i))
    [] kind = "print" -> PrintStmt(10 * i + 1)
    [] kind = "return" -> ReturnNode(NumberNode(10 * i + 2))
    [] kind = "if" ->
         IfNode(<< <<NumberNode(1),
                     <<PrintStmt(10 * i + 3), YieldNode(NumberNode(10 * i + 4)),
                       PrintStmt(10 * i + 5)>> >> >>, <<>>)
    [] kind = "while" ->
         WhileNode(BinOpNode(VarAccessNode("k"), "is less than", NumberNode(2)),
                   <<VarAssignNode("k", BinOpNode(VarAccessNode("k"), "plus", NumberNode(1))),
                     YieldNode(NumberNode(10 * i + 6)),
                     PrintStmt(10 * i + 7)>>)

FiberKinds == {"yield", "print", "return", "if", "while"}

FiberBodies ==
  UNION { { [i \in 1..n |-> FiberStmt(kinds[i], i)] : kinds \in [1..n -> FiberKinds] } :
          n \in 1..MaxBody }

CallFiber == VarAssignNode("r", UnaryOpNode("call", VarAccessNode("fib")))

\* let k be 0.  define a fiber named fib: body end.  NumCalls times: let r be call fib.
FiberPrograms ==
  { <<VarAssignNode("k", NumberNode(0)), FiberDefNode("fib", body)>>
      \o [i \in 1..NumCalls |-> CallFiber] : body \in FiberBodies }

\* `let a be x or return error.` at a nesting depth inside the function body
OrReturnError == VarAssignNode("a", BinOpNode(VarAccessNode("x"), "or return error",
                                              VarAccessNode("error")))
Nested(depth) ==
  CASE depth = "direct" -> <<OrReturnError>>
    [] depth = "if" -> << IfNode(<< <<NumberNode(1), <<OrReturnError>> >> >>, <<>>) >>
    [] depth = "while" ->
         << VarAssignNode("n", NumberNode(1)),
            WhileNode(VarAccessNode("n"),
                      <<VarAssignNode("n", NumberNode(0)), OrReturnError>>) >>
    [] depth = "if in while" ->
         << VarAssignNode("n", NumberNode(1)),
            WhileNode(VarAccessNode("n"),
                      <<VarAssignNode("n", NumberNode(0)),
                        IfNode(<< <<NumberNode(1), <<OrReturnError>> >> >>, <<>>)>>) >>

Depths == {"direct", "if", "while", "if in while"}

\* the argument X of the call: an Error, an Ok, or no ResultValue at all
ArgNodes == { ResultNode("Error", NumberNode(5)), ResultNode("Ok", NumberNode(4)),
              NumberNode(3) }

\* to f with x: ... x or return error ... print 1. return Ok with 2. end
\* to g with x: let b be f with x. print 3. return b. end
\* let r be f with X.  let q be g with X.  print 9.
ErrorPrograms ==
  { << FuncDefNode("f", <<"x">>,
                   Nested(d) \o <<PrintStmt(1), ReturnNode(ResultNode("Ok", NumberNode(2)))>>),
       FuncDefNode("g", <<"x">>,
                   << VarAssignNode("b", FuncCallNode(VarAccessNode("f"), <<VarAccessNode("x")>>)),
                      PrintStmt(3),
                      ReturnNode(VarAccessNode("b")) >>),
       VarAssignNode("r", FuncCallNode(VarAccessNode("f"), <<arg>>)),
       VarAssignNode("q", FuncCallNode(VarAccessNode("g"), <<arg>>)),
       PrintStmt(9) >> : d \in Depths, arg \in ArgNodes }

\* a statement that binds a name no program reads
Filler == VarAssignNode("z", NumberNode(0))

\* let x be 0 (or not).  set x to 1.  let y be 7 (or not).
\* to f with p: let y be 5 (or not). set y to 2. return y. end
\* let r be f with 1.
SetProgram(global_x, global_y, local_y) ==
  << IF global_x THEN VarAssignNode("x", NumberNode(0)) ELSE Filler,
     SetNode(VarAccessNode("x"), NumberNode(1)),
     IF global_y THEN VarAssignNode("y", NumberNode(7)) ELSE Filler,
     FuncDefNode("f", <<"p">>,
                 << IF local_y THEN VarAssignNode("y", NumberNode(5)) ELSE Filler,
                    SetNode(VarAccessNode("y"), NumberNode(2)),
                    ReturnNode(VarAccessNode("y")) >>),
     VarAssignNode("r", FuncCallNode(VarAccessNode("f"), <<NumberNode(1)>>)) >>

SetPrograms ==
  { SetProgram(global_x, global_y, local_y) : global_x, global_y, local_y \in BOOLEAN }

\* let v be 9 (or not).  to g with p: return v. end
\* to f with p: let v be 5. return g with 1. end   let r be f with 1.
ScopeProgram(global_v) ==
  << IF global_v THEN VarAssignNode("v", NumberNode(9)) ELSE Filler,
     FuncDefNode("g", <<"p">>, <<ReturnNode(VarAccessNode("v"))>>),
     FuncDefNode("f", <<"p">>,
                 << VarAssignNode("v", NumberNode(5)),
                    ReturnNode(FuncCallNode(VarAccessNode("g"), <<NumberNode(1)>>)) >>),
     VarAssignNode("r", FuncCallNode(VarAccessNode("f"), <<NumberNode(1)>>)) >>

ScopePrograms == { ScopeProgram(global_v) : global_v \in BOOLEAN }

\* the blocks a return statement is nested in, the outermost first: at most
\* MaxNest of the then, otherwise-if and otherwise bodies of an if and the
\* body of a while
MaxNest == 2
BlockKindsOfReturn == {"if", "elif", "else", "while"}
Nestings == UNION { [1..n -> BlockKindsOfReturn] : n \in 0..MaxNest }

\* the statements inner put in a block of the kind; a while block counts its
\* passes in n, and a print follows inner in the loop body
InBlock(kind, inner) ==
  CASE kind = "if" -> IfNode(<< <<NumberNode(1), inner>> >>, <<>>)
    [] kind = "elif" ->
         IfNode(<< <<NumberNode(0), <<PrintStmt(5)>> >>, <<NumberNode(1), inner>> >>,
                <<PrintStmt(6)>>)
    [] kind = "else" -> IfNode(<< <<NumberNode(0), <<PrintStmt(5)>> >> >>, inner)
    [] kind = "while" ->
         WhileNode(BinOpNode(VarAccessNode("n"), "is less than",
                             NumberNode(MaxNest + 1)),
                   <<VarAssignNode("n", BinOpNode(VarAccessNode("n"), "plus",
                                                  NumberNode(1)))>>
                     \o inner \o <<PrintStmt(3)>>)

\* print 1. return 7. print 2. inside the blocks of the nesting from level i
\* on, each block followed by a print
RECURSIVE NestedReturn(_, _)
NestedReturn(nesting, i) ==
  IF i > Len(nesting)
  THEN <<PrintStmt(1), ReturnNode(NumberNode(7)), PrintStmt(2)>>
  ELSE <<InBlock(nesting[i], NestedReturn(nesting, i + 1)), PrintStmt(4)>>

\* to f with p: let n be 0. the nested return. return 8. end
\* let r be f with 1.  print with 9.
ReturnProgram(nesting) ==
  << FuncDefNode("f", <<"p">>,
                 <<VarAssignNode("n", NumberNode(0))>> \o NestedReturn(nesting, 1)
                   \o <<ReturnNode(NumberNode(8))>>),
     VarAssignNode("r", FuncCallNode(VarAccessNode("f"), <<NumberNode(1)>>)),
     PrintStmt(9) >>

ReturnPrograms == { ReturnProgram(nesting) : nesting \in Nestings }

\* functions and methods of 0 to MaxArgs parameters are called with 0 to
\* MaxArgs arguments
MaxArgs == 3
ParamNames == <<"a", "b", "c", "d">>
Params(n) == [i \in 1..n |-> IF i <= Len(ParamNames) THEN ParamNames[i] ELSE "e"]
Args(k) == [i \in 1..k |-> NumberNode(i)]

\* to f with n parameters: print with 1. return 3. end
\* to define R: w is 0. to m with n parameters: print with 2. return 4. end end
\* let o be new R.  let r be f with k arguments.  let q be o.m with k arguments.
\* let b be o.m.  let u be b with k arguments.
ArityProgram(n, k) ==
  << FuncDefNode("f", Params(n), <<PrintStmt(1), ReturnNode(NumberNode(3))>>),
     RecordDefNode("R",
       << PropertyDefNode("w", NumberNode(0)),
          FuncDefNode("m", Params(n), <<PrintStmt(2), ReturnNode(NumberNode(4))>>) >>),
     VarAssignNode("o", NewInstanceNode("R", <<>>)),
     VarAssignNode("r", FuncCallNode(VarAccessNode("f"), Args(k))),
     VarAssignNode("q", FuncCallNode(MemberAccessNode(VarAccessNode("o"), "m"), Args(k))),
     VarAssignNode("b", MemberAccessNode(VarAccessNode("o"), "m")),
     VarAssignNode("u", FuncCallNode(VarAccessNode("b"), Args(k))) >>

ArityPrograms == { ArityProgram(n, k) : n, k \in 0..MaxArgs }

\* the index of the right type for the container, and indices of other types
Containers == {"Table", "Vector"}
GoodIndex(container) == IF container = "Table" THEN StringNode("k") ELSE NumberNode(0)
BadIndexKinds == {"scalar", "new container", "the container"}
BadIndex(container, kind) ==
  CASE kind = "scalar" -> IF container = "Table" THEN NumberNode(0) ELSE StringNode("k")
    [] kind = "new container" -> IF container = "Table" THEN VectorNode ELSE TableNode
    [] kind = "the container" -> VarAccessNode("c")

\* let c be Table (or Vector).  set c[good] to 1 (or not).
\* set c[bad] to 5 (or let a be c[bad]).  let g be c[good].
IndexProgram(container, populated, assign, kind) ==
  << VarAssignNode("c", IF container = "Table" THEN TableNode ELSE VectorNode),
     IF populated
     THEN IndexAssignNode(VarAccessNode("c"), GoodIndex(container), NumberNode(1))
     ELSE Filler,
     IF assign
     THEN IndexAssignNode(VarAccessNode("c"), BadIndex(container, kind), NumberNode(5))
     ELSE VarAssignNode("a", IndexAccessNode(VarAccessNode("c"),
                                             BadIndex(container, kind))),
     VarAssignNode("g", IndexAccessNode(VarAccessNode("c"), GoodIndex(container))) >>

IndexPrograms ==
  { IndexProgram(container, populated, assign, kind) :
      container \in Containers, populated \in BOOLEAN, assign \in BOOLEAN,
      kind \in BadIndexKinds }

\* the names a constructor can give a value to: x and y have a default in
\* the record R, w has none
PropertyNames == <<"x", "y", "w">>
ArgumentOf(i) == NumberNode(4 + i)
Properties(named) ==
  SelectSeq([i \in 1..Len(PropertyNames) |-> <<PropertyNames[i], ArgumentOf(i)>>],
            LAMBDA p : p[1] \in named)

\* to define R: property x with 0. let y be 1. property v. end
\* let a be new R with the properties named_a.
\* let b be new R with the properties named_b.
InstanceProgram(named_a, named_b) ==
  << RecordDefNode("R", << PropertyDefNode("x", NumberNode(0)),
                           VarAssignNode("y", NumberNode(1)),
                           PropertyDefNode("v", PyNone) >>),
     VarAssignNode("a", NewInstanceNode("R", Properties(named_a))),
     VarAssignNode("b", NewInstanceNode("R", Properties(named_b))) >>

InstancePrograms ==
  { InstanceProgram(named_a, named_b) :
      named_a, named_b \in SUBSET { PropertyNames[i] : i \in 1..Len(PropertyNames) } }

\* the members read from an instance of R: the property x, the method m
\* without parameters, the method n with a parameter, and two names that are
\* neither property nor method
MemberNames == {"x", "m", "n", "u", "print"}

\* let <member> be 9 (or not).
\* to define R: property x with 0. to m: return 4. end
\*               to n with p: return p. end end
\* let a be new R.  let r be a.<member>.
MemberProgram(global, member) ==
  << IF global THEN VarAssignNode(member, NumberNode(9)) ELSE Filler,
     RecordDefNode("R", << PropertyDefNode("x", NumberNode(0)),
                           FuncDefNode("m", <<>>, <<ReturnNode(NumberNode(4))>>),
                           FuncDefNode("n", <<"p">>, <<ReturnNode(VarAccessNode("p"))>>) >>),
     VarAssignNode("a", NewInstanceNode("R", <<>>)),
     VarAssignNode("r", MemberAccessNode(VarAccessNode("a"), member)) >>

MemberPrograms ==
  { MemberProgram(global, member) : global \in BOOLEAN, member \in MemberNames }

\* the kinds of value whose truth value is tested
ValueKinds ==
  {"zero", "nonzero", "empty String", "String", "empty Table", "Table",
   "empty Vector", "Vector", "None", "Function", "BuiltInFunction", "Channel",
   "Fiber", "Record", "RecordInstance", "BoundMethod", "Ok", "Error"}

\* to define R: to n with p: return p. end end
RecordOfTruth ==
  RecordDefNode("R", <<FuncDefNode("n", <<"p">>, <<ReturnNode(VarAccessNode("p"))>>)>>)

\* three statements that bind v to a value of the kind
ValueOfKind(kind) ==
  CASE kind = "zero" -> <<Filler, Filler, VarAssignNode("v", NumberNode(0))>>
    [] kind = "nonzero" -> <<Filler, Filler, VarAssignNode("v", NumberNode(3))>>
    [] kind = "empty String" ->
         <<StringNode("s"), Filler, VarAssignNode("v", StringNode(""))>>
    [] kind = "String" ->
         <<StringNode("s"), Filler, VarAssignNode("v", StringNode("s"))>>
    [] kind = "empty Table" -> <<Filler, Filler, VarAssignNode("v", TableNode)>>
    [] kind = "Table" ->
         << VarAssignNode("c", TableNode),
            IndexAssignNode(VarAccessNode("c"), StringNode("k"), NumberNode(1)),
            VarAssignNode("v", VarAccessNode("c")) >>
    [] kind = "empty Vector" -> <<Filler, Filler, VarAssignNode("v", VectorNode)>>
    [] kind = "Vector" ->
         << VarAssignNode("c", VectorNode),
            IndexAssignNode(VarAccessNode("c"), NumberNode(0), NumberNode(1)),
            VarAssignNode("v", VarAccessNode("c")) >>
    [] kind = "None" ->
         << VarAssignNode("c", TableNode), Filler,
            VarAssignNode("v", IndexAccessNode(VarAccessNode("c"), StringNode("k"))) >>
    [] kind = "Function" ->
         << Filler, FuncDefNode("f", <<"p">>, <<ReturnNode(VarAccessNode("p"))>>),
            VarAssignNode("v", VarAccessNode("f")) >>
    [] kind = "BuiltInFunction" ->
         <<Filler, Filler, VarAssignNode("v", VarAccessNode("print"))>>
    [] kind = "Channel" ->
         <<Filler, ChannelNode("ch"), VarAssignNode("v", VarAccessNode("ch"))>>
    [] kind = "Fiber" ->
         << Filler, FiberDefNode("fib", <<YieldNode(NumberNode(1))>>),
            VarAssignNode("v", VarAccessNode("fib")) >>
    [] kind = "Record" -> <<Filler, RecordOfTruth, VarAssignNode("v", VarAccessNode("R"))>>
    [] kind = "RecordInstance" ->
         <<Filler, RecordOfTruth, VarAssignNode("v", NewInstanceNode("R", <<>>))>>
    [] kind = "BoundMethod" ->
         << RecordOfTruth, VarAssignNode("a", NewInstanceNode("R", <<>>)),
            VarAssignNode("v", MemberAccessNode(VarAccessNode("a"), "n")) >>
    [] kind = "Ok" -> <<Filler, Filler, VarAssignNode("v", ResultNode("Ok", NumberNode(1)))>>
    [] kind = "Error" ->
         <<Filler, Filler, VarAssignNode("v", ResultNode("Error", NumberNode(1)))>>

\* v is a value of the kind.  let n be not v.  let o be v or 0.
\* let d be v and 1.  if v then print with 1. otherwise print with 0. end
\* while v: let v be 0. print with 2. end
TruthProgram(kind) ==
  ValueOfKind(kind) \o
  << VarAssignNode("n", UnaryOpNode("not", VarAccessNode("v"))),
     VarAssignNode("o", BinOpNode(VarAccessNode("v"), "or", NumberNode(0))),
     VarAssignNode("d", BinOpNode(NumberNode(1), "and", VarAccessNode("v"))),
     IfNode(<< <<VarAccessNode("v"), <<PrintStmt(1)>> >> >>, <<PrintStmt(0)>>),
     WhileNode(VarAccessNode("v"),
               <<VarAssignNode("v", NumberNode(0)), PrintStmt(2)>>) >>

TruthPrograms == { TruthProgram(kind) : kind \in ValueKinds }

\* the ways a call of f ends: past the last statement of the body, at a
\* return, at `x or return error` with x an Error, and in a runtime error
\* (the name u is bound nowhere)
CallEnds == {"end of body", "return", "or return error", "error"}
BodyOf(ends) ==
  CASE ends = "end of body" -> <<PrintStmt(1)>>
    [] ends = "return" -> <<ReturnNode(VarAccessNode("x")), PrintStmt(1)>>
    [] ends = "or return error" -> <<OrReturnError, PrintStmt(1)>>
    [] ends = "error" -> <<VarAssignNode("a", VarAccessNode("u")), PrintStmt(1)>>

\* to f with x: the body. end
\* to g with x: let b be f with x. return b. end
\* let r be f with Error with 5.  let q be g with Error with 5.
FrameProgram(ends) ==
  << FuncDefNode("f", <<"x">>, BodyOf(ends)),
     FuncDefNode("g", <<"x">>,
                 << VarAssignNode("b", FuncCallNode(VarAccessNode("f"),
                                                    <<VarAccessNode("x")>>)),
                    ReturnNode(VarAccessNode("b")) >>),
     VarAssignNode("r", FuncCallNode(VarAccessNode("f"),
                                     <<ResultNode("Error", NumberNode(5))>>)),
     VarAssignNode("q", FuncCallNode(VarAccessNode("g"),
                                     <<ResultNode("Error", NumberNode(5))>>)) >>

FramePrograms == { FrameProgram(ends) : ends \in CallEnds }

Programs ==
  SoftFailPrograms \cup FiberPrograms \cup ErrorPrograms \cup SetPrograms
    \cup ScopePrograms \cup ReturnPrograms \cup ArityPrograms \cup IndexPrograms
    \cup InstancePrograms \cup MemberPrograms \cup TruthPrograms
    \cup FramePrograms

(***************************************************************************)
(* State.                                                                  *)
(***************************************************************************)
VARIABLES
  program,      \* ProgramNode.statements of the program being run
  pc,           \* visit_ProgramNode: index of the next top-level statement
  error_count,  \* visit_ProgramNode: error_count
  result,       \* visit_ProgramNode: result
  status,       \* where run() is: "running", "stopped" (break), "returned", "done"
  results,      \* the outcome of every top-level statement executed so far
  scopes,       \* the SymbolTable objects; scopes[1] is the global symbol table
  fibers,       \* the Fiber objects
  frames,       \* Interpreter.stack_trace.frames
  out,          \* the numbers written by print
  channels,     \* the Channel objects
  tables,       \* the Table objects
  threads,      \* the threads of the threads machine; threads[1] is the main thread
  tokens,       \* Parser.tokens
  token_idx,    \* Parser.token_idx, counted from 1
  errors,       \* Parser.error_aggregator.errors
  recovery_mode, \* Parser.recovery_mode
  available_variables, \* Parser.available_variables
  statements,   \* parse(): statements
  parse_status, \* where parse() is: "constructed", "parsing", "returned", "raised"
  parse_result, \* what parse() has returned, or the exception it has let out
  files,        \* the source files by their paths, each parsed to its statements
  modules,      \* ModuleSystem.cache.modules: the ModuleInfo objects by file path
  dependencies, \* ModuleSystem.dependency_graph.dependencies
  loading_stack, \* ModuleSystem.dependency_graph.loading_stack
  current_exports, \* Interpreter.current_exports
  file_path,    \* Interpreter.file_path
  calls,        \* the calls of visit_ProgramNode in progress, the innermost last
  executions,   \* the files in the order execute_module has executed them
  imported,     \* what import_module has returned, call by call
  import_errors \* the exceptions import_module has raised, call by call

progVars == <<program, pc, error_count, result, status, results, scopes, fibers, frames, out>>
concVars == <<channels, tables, threads>>
parseVars ==
  <<tokens, token_idx, errors, recovery_mode, available_variables, statements,
    parse_status, parse_result>>

modVars ==
  <<files, modules, dependencies, loading_stack, current_exports, file_path,
    calls, executions, imported, import_errors>>

vars == <<progVars, concVars, parseVars, modVars>>

\* no module system is at work
NoModules ==
  /\ files = <<>>
  /\ modules = <<>>
  /\ dependencies = <<>>
  /\ loading_stack = <<>>
  /\ current_exports = <<>>
  /\ file_path = ""
  /\ calls = <<>>
  /\ executions = <<>>
  /\ imported = <<>>
  /\ import_errors = <<>>

\* no parser is at work
NoParser ==
  /\ tokens = <<>>
  /\ token_idx = 1
  /\ errors = <<>>
  /\ recovery_mode = FALSE
  /\ available_variables = {}
  /\ statements = <<>>
  /\ parse_status = "returned"
  /\ parse_result = PyNone

\* the global symbol table: the built-in print
global_symbol_table ==
  [symbols |-> [n \in {"print"} |-> BuiltInFunction("print")], parent |-> 0]

\* run(): the state when visit_ProgramNode starts, the <main> frame pushed
InitProg ==
  /\ program \in Programs
  /\ pc = 1
  /\ error_count = 0
  /\ result = PyNone
  /\ status = "running"
  /\ results = <<>>
  /\ scopes = <<global_symbol_table>>
  /\ fibers = <<>>
  /\ frames = push_frame(<<>>, "<main>")
  /\ out = <<>>
  /\ channels = <<>>
  /\ tables = <<>>
  /\ threads = <<>>
  /\ NoParser
  /\ NoModules

\* the heap as the interpreter whose stack trace is fr sees it
Heap(fr) ==
  [scopes |-> scopes, fibers |-> fibers, frames |-> fr, out |-> out,
   channels |-> channels, tables |-> tables, threads |-> threads,
   blocked |-> FALSE]

\* the loop body of visit_ProgramNode once the statement has been visited
\* with outcome r; tested is the count the error limit is tested on
StatementVisited(r, tested) ==
  /\ ~r.st.blocked
  /\ scopes' = r.st.scopes
  /\ fibers' = r.st.fibers
  /\ channels' = r.st.channels
  /\ tables' = r.st.tables
  /\ threads' = r.st.threads
  /\ frames' = r.st.frames
  /\ out' = r.st.out
  /\ results' = Append(results, [exc |-> r.exc, v |-> r.v])
  /\ IF r.exc
     THEN /\ error_count' = error_count + 1
          /\ result' = result
          /\ IF tested >= max_errors
             THEN status' = "stopped" /\ pc' = pc
             ELSE status' = "running" /\ pc' = pc + 1
     ELSE /\ error_count' = error_count
          /\ IF r.v.t \in {"ReturnValue", "YieldValue"}
             THEN result' = r.v.value /\ status' = "returned" /\ pc' = pc
             ELSE result' = r.v /\ status' = "running" /\ pc' = pc + 1

\* ExecStatement with the error limit tested before the count is incremented
ExecStatement_late_stop ==
  /\ status = "running"
  /\ pc <= Len(program)
  /\ StatementVisited(visit(program[pc], 1, Heap(frames)), error_count)
  /\ UNCHANGED <<program, parseVars, modVars>>

\* one pass of the for loop of visit_ProgramNode
ExecStatement ==
  /\ status = "running"
  /\ pc <= Len(program)
  /\ StatementVisited(visit(program[pc], 1, Heap(frames)), error_count + 1)
  /\ UNCHANGED <<program, parseVars, modVars>>

\* visit_ProgramNode returns and run() pops the <main> frame
ProgramReturn ==
  /\ \/ status = "running" /\ pc > Len(program)
     \/ status \in {"stopped", "returned"}
  /\ status' = "done"
  /\ frames' = pop_frame(frames)
  /\ UNCHANGED <<program, pc, error_count, result, results, scopes, fibers, out>>
  /\ UNCHANGED <<concVars, parseVars, modVars>>

NextProg == ExecStatement \/ ProgramReturn

SpecProg == InitProg /\ [][NextProg]_vars

(***************************************************************************)
(* The threads machine: the main thread running visit_ProgramNode and the  *)
(* threads started by `run concurrently`, interleaved.  A thread step is   *)
(* one statement, with three exceptions: a while statement is one step per *)
(* evaluation of its condition, its body statements being steps of their   *)
(* own; an index assignment is two steps, the evaluation of its operands   *)
(* and the call of obj.set, since the interpreter holds no lock between    *)
(* them; and a thread that reaches a queue operation which cannot return   *)
(* waits there.  The value run() returns (result) is not followed here.    *)
(***************************************************************************)
\* number of values sent through the channel, the sentinel included
NumMsgs == 4
\* number of threads a program of the machine has, the main thread included
MaxThreads == 4

\* the values sent: 1, 2, ... and the sentinel 0 last
Messages(n) == [i \in 1..n |-> IF i = n THEN 0 ELSE i]
Sends(from, to, n) ==
  [j \in 1..(to - from + 1) |->
     SendNode(VarAccessNode("messages"), NumberNode(Messages(n)[from + j - 1]))]

\* let received_message be 99.
\* while received_message is not 0:
\*     let received_message be receive from messages.  print with received_message.
\* end
ReceiveLoop ==
  << VarAssignNode("received_message", NumberNode(99)),
     WhileNode(BinOpNode(VarAccessNode("received_message"), "is not", NumberNode(0)),
               << VarAssignNode("received_message",
                                ReceiveNode(VarAccessNode("messages"))),
                  FuncCallNode(VarAccessNode("print"),
                               <<VarAccessNode("received_message")>>) >>) >>

Placements == {"task sends", "main sends", "main then task", "task receives"}

\* create a channel named messages. then n sends ending with the sentinel and
\* the receive loop, placed in the main thread or in a task
ChannelProgram(n, placement) ==
  <<ChannelNode("messages")>> \o
  CASE placement = "task sends" -> <<TaskNode(Sends(1, n, n))>> \o ReceiveLoop
    [] placement = "main sends" -> Sends(1, n, n) \o ReceiveLoop
    [] placement = "main then task" ->
         Sends(1, 1, n) \o <<TaskNode(Sends(2, n, n))>> \o ReceiveLoop
    [] placement = "task receives" -> <<TaskNode(ReceiveLoop)>> \o Sends(1, n, n)

ChannelPrograms ==
  { ChannelProgram(n, pl) : n \in 1..NumMsgs, pl \in Placements }

\* run concurrently: S. print with 7. end   print with 2. M. print with 3.
\* where S and M either succeed or raise a runtime error
TaskErrorProgram(taskFails, mainFails) ==
  << TaskNode(<< IF taskFails THEN StmtBad(1) ELSE StmtOk, PrintStmt(7) >>),
     PrintStmt(2),
     IF mainFails THEN StmtBad(2) ELSE StmtOk,
     PrintStmt(3) >>

TaskErrorPrograms ==
  { TaskErrorProgram(tf, mf) : tf \in BOOLEAN, mf \in BOOLEAN }

\* set t["k"] to t["k"] plus 1.
Increment ==
  IndexAssignNode(VarAccessNode("t"), StringNode("k"),
                  BinOpNode(IndexAccessNode(VarAccessNode("t"), StringNode("k")),
                            "plus", NumberNode(1)))

\* let t be Table.  set t["k"] to 0.  then two increments of t["k"]: one in
\* a task and one in the main thread, or one in each of two tasks
RacePrograms ==
  { << VarAssignNode("t", TableNode),
       IndexAssignNode(VarAccessNode("t"), StringNode("k"), NumberNode(0)),
       TaskNode(<<Increment>>) >> \o second :
    second \in { <<Increment>>, <<TaskNode(<<Increment>>)>> } }

\* the scopes a set statement is executed in
ScopeKinds == {"function", "method", "fiber", "task"}

\* set x to v.  let l be x.  return l (yield l in a fiber).
SetAndRead(v, kind) ==
  << SetNode(VarAccessNode("x"), NumberNode(v)),
     VarAssignNode("l", VarAccessNode("x")) >>
  \o IF kind = "task" THEN <<>>
     ELSE IF kind = "fiber" THEN <<YieldNode(VarAccessNode("l"))>>
     ELSE <<ReturnNode(VarAccessNode("l"))>>

\* let x be 7.  the definition of the function, record and instance or
\* fiber whose body sets x to 2, or nothing.  the call, or the task whose
\* body sets x to 2.  let e be x.
ShadowProgram(kind) ==
  <<VarAssignNode("x", NumberNode(7))>> \o
  CASE kind = "function" ->
         << FuncDefNode("f", <<"p">>, SetAndRead(2, kind)), Filler,
            VarAssignNode("r", FuncCallNode(VarAccessNode("f"), <<NumberNode(1)>>)) >>
    [] kind = "method" ->
         << RecordDefNode("R", <<FuncDefNode("m", <<"p">>, SetAndRead(2, kind))>>),
            VarAssignNode("o", NewInstanceNode("R", <<>>)),
            VarAssignNode("r", FuncCallNode(MemberAccessNode(VarAccessNode("o"), "m"),
                                            <<NumberNode(1)>>)) >>
    [] kind = "fiber" ->
         << FiberDefNode("fib", SetAndRead(2, kind)), Filler,
            VarAssignNode("r", UnaryOpNode("call", VarAccessNode("fib"))) >>
    [] kind = "task" -> <<Filler, Filler, TaskNode(SetAndRead(2, kind))>>
  \o <<VarAssignNode("e", VarAccessNode("x"))>>

ShadowPrograms == { ShadowProgram(kind) : kind \in ScopeKinds }

\* the values the sender s sends, in the order of its send statements
PerSender == 2
FanValues(s) == [j \in 1..PerSender |-> PerSender * (s - 1) + j]
\* send 1 through ch.  send 2 through ch.
FanSends(s) ==
  [j \in 1..PerSender |-> SendNode(VarAccessNode("ch"), NumberNode(FanValues(s)[j]))]
\* let a1 be receive from ch.  let a2 be receive from ch.
ReceiveNames(receiver) ==
  IF receiver = 1 THEN <<"a1", "a2", "a3", "a4">> ELSE <<"b1", "b2", "b3", "b4">>
FanReceives(receiver) ==
  [j \in 1..PerSender |->
     VarAssignNode(ReceiveNames(receiver)[j], ReceiveNode(VarAccessNode("ch")))]

\* two threads send to the channel ch and two threads receive from it: the
\* senders are two tasks, or a task and the main thread; the receivers are a
\* task and the main thread
FanLayouts == {"tasks send", "main sends"}
FanProgram(layout) ==
  <<ChannelNode("ch")>> \o
  CASE layout = "tasks send" ->
         << TaskNode(FanSends(1)), TaskNode(FanSends(2)), TaskNode(FanReceives(1)) >>
         \o FanReceives(2)
    [] layout = "main sends" ->
         << TaskNode(FanSends(1)), TaskNode(FanReceives(1)) >>
         \o FanSends(2) \o FanReceives(2)

FanPrograms == { FanProgram(layout) : layout \in FanLayouts }

ConcPrograms ==
  ChannelPrograms \cup TaskErrorPrograms \cup RacePrograms \cup ShadowPrograms
  \cup FanPrograms

\* the statement a thread executes next, and the thread once it has taken it
HasNext(th) == th.pending # PyNone \/ th.inner # <<>> \/ th.ip <= Len(th.body)
Current(th) == IF th.inner # <<>> THEN Head(th.inner) ELSE th.body[th.ip]
Taken(th) ==
  IF th.inner # <<>> THEN [th EXCEPT !.inner = Tail(@)] ELSE [th EXCEPT !.ip = @ + 1]

\* the result r of a step, with the thread as the step leaves it
Outcome(r, th) == [exc |-> r.exc, v |-> r.v, st |-> r.st, th |-> th]

\* the operands of an index assignment are evaluated: the write is pending
IndexAssign_begin(e, next) ==
  IF e.exc THEN Outcome([e EXCEPT !.v = enhance(@)], next)
  ELSE Outcome(Returned(PyNone, e.st), [next EXCEPT !.pending = e.v])

\* the condition of a while statement is evaluated: the thread enters the
\* body, the while statement after it, or leaves the statement
While_test(node, cond, next) ==
  IF cond.exc THEN Outcome(cond, next)
  ELSE IF is_true(cond.v, cond.st)
  THEN Outcome(Returned(Number(0), cond.st),
               [next EXCEPT !.inner = node.body_nodes \o <<node>> \o @])
  ELSE Outcome(Returned(Number(0), cond.st), next)

\* one step of thread th on the heap st
thread_step(th, st) ==
  IF th.pending # PyNone
  THEN Outcome(IndexAssign_store(th.pending, st), [th EXCEPT !.pending = PyNone])
  ELSE IF Current(th).k = "IndexAssignNode"
  THEN IndexAssign_begin(IndexAssign_eval(Current(th), th.context, st), Taken(th))
  ELSE IF Current(th).k = "WhileNode"
  THEN While_test(Current(th), visit(Current(th).condition_node, th.context, st),
                  Taken(th))
  ELSE Outcome(visit(Current(th), th.context, st), Taken(th))

\* a ReturnValue or YieldValue ends the while loops the statement is in
Leaves(r) == ~r.exc /\ r.v.t \in {"ReturnValue", "YieldValue"}

\* the threads after the step r of thread i, which goes on in state s
Stepped(i, r, s) ==
  [r.st.threads EXCEPT ![i] =
     [r.th EXCEPT !.frames = r.st.frames,
                  !.inner = IF r.exc \/ Leaves(r) THEN <<>> ELSE @,
                  !.state = s]]

\* the thread after r has more to run
GoesOn(r) ==
  IF r.exc \/ Leaves(r) THEN r.th.ip <= Len(r.th.body) ELSE HasNext(r.th)

InitConc ==
  /\ program \in ConcPrograms
  /\ pc = 1
  /\ error_count = 0
  /\ result = PyNone
  /\ status = "running"
  /\ results = <<>>
  /\ scopes = <<global_symbol_table>>
  /\ fibers = <<>>
  /\ frames = push_frame(<<>>, "<main>")
  /\ out = <<>>
  /\ channels = <<>>
  /\ tables = <<>>
  /\ threads = <<Thread(1, program, frames)>>
  /\ NoParser
  /\ NoModules

\* the main thread after its step r: the loop of visit_ProgramNode counts
\* the exception of a top-level statement and goes on with the next one
MainStepped(r) ==
  IF r.st.blocked
  THEN /\ threads[1].state = "running"
       /\ threads' = [threads EXCEPT ![1].state = "waiting"]
       /\ UNCHANGED <<error_count, status, scopes, fibers, out, channels, tables>>
  ELSE /\ scopes' = r.st.scopes
       /\ fibers' = r.st.fibers
       /\ out' = r.st.out
       /\ channels' = r.st.channels
       /\ tables' = r.st.tables
       /\ error_count' = IF r.exc THEN error_count + 1 ELSE error_count
       /\ status' = CASE r.exc /\ error_count + 1 >= max_errors -> "stopped"
                      [] Leaves(r) -> "returned"
                      [] ~GoesOn(r) -> "done"
                      [] OTHER -> "running"
       /\ threads' = Stepped(1, r, IF status' = "running" THEN "running" ELSE "done")

\* a step of the main thread
MainStep ==
  /\ threads # <<>>
  /\ threads[1].state \in {"running", "waiting"}
  /\ MainStepped(thread_step(threads[1], Heap(threads[1].frames)))
  /\ UNCHANGED <<program, pc, result, results, frames, parseVars, modVars>>

\* the thread i of a task after its step r: task_target has no handler, the
\* first exception ends the thread; the value of a statement is dropped
TaskStepped(i, r) ==
  IF r.st.blocked
  THEN /\ threads[i].state = "running"
       /\ threads' = [threads EXCEPT ![i].state = "waiting"]
       /\ UNCHANGED <<scopes, fibers, out, channels, tables>>
  ELSE /\ scopes' = r.st.scopes
       /\ fibers' = r.st.fibers
       /\ out' = r.st.out
       /\ channels' = r.st.channels
       /\ tables' = r.st.tables
       /\ threads' = Stepped(i, r, CASE r.exc -> "failed"
                                     [] ~GoesOn(r) -> "done"
                                     [] OTHER -> "running")

\* a step of the thread of a task
TaskStep(i) ==
  /\ i \in 2..Len(threads)
  /\ threads[i].state \in {"running", "waiting"}
  /\ TaskStepped(i, thread_step(threads[i], Heap(threads[i].frames)))
  /\ UNCHANGED <<program, pc, error_count, result, status, results, frames, parseVars,
               modVars>>

NextConc == MainStep \/ \E i \in 2..MaxThreads : TaskStep(i)

SpecConc == InitConc /\ [][NextConc]_vars

\* thread i can take a step: it is running, or it waits in a queue operation
\* that can now return
CanRun(i) ==
  /\ i \in 1..Len(threads)
  /\ \/ threads[i].state = "running"
     \/ /\ threads[i].state = "waiting"
        /\ ~thread_step(threads[i], Heap(threads[i].frames)).st.blocked

\* the scheduler lets every thread that can run take its step: weak fairness
\* of the steps of each thread, WF_vars(A) being written out as
\* []<>~ENABLED <<A>>_vars \/ []<><<A>>_vars with CanRun(i) for the ENABLED
Fairness ==
  /\ []<>(~CanRun(1)) \/ []<><<MainStep>>_vars
  /\ \A i \in 2..MaxThreads : []<>(~CanRun(i)) \/ []<><<TaskStep(i)>>_vars

SpecConcFair == SpecConc /\ Fairness

(***************************************************************************)
(* The parser: Parser.parse() over the token sequences of a vocabulary.    *)
(* A token is its type and its value; a value is written as its text, the  *)
(* value None of the EOF token as the empty string.                        *)
(***************************************************************************)
MaxTokens == 3

TT_KEYWORD == "KEYWORD"
TT_IDENTIFIER == "IDENTIFIER"
TT_NUMBER == "NUMBER"
TT_STRING == "STRING"
TT_OPERATOR == "OPERATOR"
TT_PUNCTUATION == "PUNCTUATION"
TT_EOL == "EOL"
TT_EOF == "EOF"

Token(type, value) == [type |-> type, value |-> value]

\* the tokens the lexer hands over, its final EOF token apart
Vocabulary ==
  { Token(TT_KEYWORD, "let"), Token(TT_KEYWORD, "be"), Token(TT_KEYWORD, "return"),
    Token(TT_KEYWORD, "end"), Token(TT_KEYWORD, "create"),
    Token(TT_IDENTIFIER, "x"), Token(TT_NUMBER, "1"), Token(TT_OPERATOR, "plus"),
    Token(TT_PUNCTUATION, "."), Token(TT_EOL, "\\n") }

\* the token sequences of at most MaxTokens tokens before the EOF token
TokenSequences ==
  { Append(s, Token(TT_EOF, "")) :
      s \in UNION { [1..n -> Vocabulary] : n \in 0..MaxTokens } }

\* the tokens by their types
KW(value) == Token(TT_KEYWORD, value)
ID(value) == Token(TT_IDENTIFIER, value)
NUM(value) == Token(TT_NUMBER, value)
OP(value) == Token(TT_OPERATOR, value)
PUNCT(value) == Token(TT_PUNCTUATION, value)
EOL == Token(TT_EOL, "\\n")
EOF == Token(TT_EOF, "")

\* the tokens of the lines of a source text: every line ends with an EOL
\* token, the text with the EOF token
RECURSIVE Lines(_)
Lines(lines) ==
  IF lines = <<>> THEN <<EOF>>
  ELSE Head(lines) \o <<EOL>> \o Lines(Tail(lines))

\* well-formed statements, one to a line, and the nodes they stand for:
\*   x.    let x be 1.    return 1.
WellFormedStatements ==
  { [text |-> <<ID("x"), PUNCT(".")>>,
     node |-> FuncCallNode(VarAccessNode(ID("x")), <<>>)],
    [text |-> <<KW("let"), ID("x"), KW("be"), NUM("1"), PUNCT(".")>>,
     node |-> VarAssignNode(ID("x"), NumberNode(NUM("1")))],
    [text |-> <<KW("return"), NUM("1"), PUNCT(".")>>,
     node |-> ReturnNode(NumberNode(NUM("1")))] }

\* malformed statements, each ended by its period:
\*   x 1.    let x 1.    1.    plus.    let be 1.    return.    let x be.
MalformedStatements ==
  { <<ID("x"), NUM("1"), PUNCT(".")>>,
    <<KW("let"), ID("x"), NUM("1"), PUNCT(".")>>,
    <<NUM("1"), PUNCT(".")>>,
    <<OP("plus"), PUNCT(".")>>,
    <<KW("let"), KW("be"), NUM("1"), PUNCT(".")>>,
    <<KW("return"), PUNCT(".")>>,
    <<KW("let"), ID("x"), KW("be"), PUNCT(".")>> }

\* the well-formed statements that follow the malformed ones
MaxWellFormed == 2
WellFormedLists ==
  UNION { [1..n -> WellFormedStatements] : n \in 1..MaxWellFormed }

\* two malformed statements and then the well-formed statements ws
RecoveryProgram(m1, m2, ws) ==
  Lines(<<m1, m2>> \o [i \in 1..Len(ws) |-> ws[i].text])

RecoveryPrograms ==
  { RecoveryProgram(m1, m2, ws) :
      m1 \in MalformedStatements, m2 \in MalformedStatements, ws \in WellFormedLists }

\* the first line of a block of each kind:
\*   if x then    while x:    to f:    to define R:
BlockKinds == {"if", "while", "function", "record"}
BlockHead(kind) ==
  CASE kind = "if" -> <<KW("if"), ID("x"), KW("then")>>
    [] kind = "while" -> <<KW("while"), ID("x"), PUNCT(":")>>
    [] kind = "function" -> <<KW("to"), ID("f"), PUNCT(":")>>
    [] kind = "record" -> <<KW("to"), KW("define"), ID("R"), PUNCT(":")>>

\* the statement after the block:  return 1.
AfterBlock ==
  [text |-> <<KW("return"), NUM("1"), PUNCT(".")>>,
   node |-> ReturnNode(NumberNode(NUM("1")))]

\* a block whose body is the malformed statement m and then the well-formed
\* statements ws, closed by its end, and a statement after it
BlockProgram(kind, m, ws) ==
  Lines(<<BlockHead(kind), m>> \o [i \in 1..Len(ws) |-> ws[i].text]
        \o <<<<KW("end")>>, AfterBlock.text>>)

BlockPrograms ==
  { BlockProgram(kind, m, ws) :
      kind \in BlockKinds, m \in MalformedStatements, ws \in WellFormedLists }

\* the binary operators of the binding-strength table that take a right
\* operand, and the unary prefix operators
BinaryOperators ==
  {"or", "and", "is", "is not", "is greater than", "is less than", "is an",
   "plus", "minus", "concatenated with", "times", "divided by"}
UnaryOperators == {"not", "call", "the ok value of", "the error message of"}

\* let r be <the tokens of an expression>.
ExpressionProgram(expr) ==
  Lines(<< <<KW("let"), ID("r"), KW("be")>> \o expr \o <<PUNCT(".")>> >>)

\* the expressions, op1 and op2 binary and u unary:
\*   1 op1 2 op2 3      ( 1 op1 2 ) op2 3      1 op1 ( 2 op2 3 )
\*   u 1 op1 2          1 op1 u 2              1 op1 2 or return error
\*   1 is an Error op1 3                       1 or return error op1 3
Expressions ==
  UNION { { <<NUM("1"), OP(op1), NUM("2"), OP(op2), NUM("3")>>,
            <<PUNCT("("), NUM("1"), OP(op1), NUM("2"), PUNCT(")"), OP(op2), NUM("3")>>,
            <<NUM("1"), OP(op1), PUNCT("("), NUM("2"), OP(op2), NUM("3"), PUNCT(")")>> } :
          op1, op2 \in BinaryOperators }
  \cup UNION { { <<OP(u), NUM("1"), OP(op1), NUM("2")>>,
                 <<NUM("1"), OP(op1), OP(u), NUM("2")>> } :
               u \in UnaryOperators, op1 \in BinaryOperators }
  \cup UNION { { <<NUM("1"), OP(op1), NUM("2"), OP("or return error")>>,
                 <<NUM("1"), OP("is an"), KW("Error"), OP(op1), NUM("3")>>,
                 <<NUM("1"), OP("or return error"), OP(op1), NUM("3")>> } :
               op1 \in BinaryOperators }

ExpressionPrograms == { ExpressionProgram(expr) : expr \in Expressions }

\* the token sequences parse() is given
ParserInputs ==
  TokenSequences \cup RecoveryPrograms \cup BlockPrograms \cup ExpressionPrograms

statement_keywords ==
  {"let", "set", "to", "if", "return", "while", "run", "create", "send",
   "define", "yield"}

RESERVED_KEYWORDS ==
  {"if", "then", "otherwise", "end", "let", "be", "to", "with", "return",
   "while", "for", "repeat", "and", "or", "not", "run", "send", "create",
   "define", "yield", "new", "set"}

max_recovery_tokens == 50

\* the fields of a Parser that parsing changes
ParserState(idx, errs, mode, names) ==
  [token_idx |-> idx, errors |-> errs, recovery_mode |-> mode,
   available_variables |-> names]

\* Parser.current_token: advance() past the end keeps the last token
current_token(p) ==
  tokens[IF p.token_idx <= Len(tokens) THEN p.token_idx ELSE Len(tokens)]

advance(p) == [p EXCEPT !.token_idx = @ + 1]

RECURSIVE skip_eols(_)
skip_eols(p) ==
  IF current_token(p).type = TT_EOL THEN skip_eols(advance(p)) ELSE p

enter_recovery_mode(p) == [p EXCEPT !.recovery_mode = TRUE]
exit_recovery_mode(p) == [p EXCEPT !.recovery_mode = FALSE]
track_variable(p, var_name) == [p EXCEPT !.available_variables = @ \cup {var_name}]

\* ErrorAggregator.add_error of the error consume and safe_consume create
add_error(p, expected_type, expected_value) ==
  [p EXCEPT !.errors = Append(@, [expected_type |-> expected_type,
                                  expected_value |-> expected_value,
                                  token_idx |-> p.token_idx])]

\* a parsing method returns node, or raises; p is the parser it leaves
Parsed(node, p) == [raised |-> FALSE, type |-> "", node |-> node, p |-> p]
SyntaxError(p) == [raised |-> TRUE, type |-> "SyntaxError", node |-> PyNone, p |-> p]

\* the test of consume and safe_consume
TokenIs(p, expected_type, expected_value) ==
  /\ current_token(p).type = expected_type
  /\ current_token(p).value = expected_value

consume(p, expected_type, expected_value) ==
  IF TokenIs(p, expected_type, expected_value)
  THEN Parsed(PyNone, advance(p))
  ELSE SyntaxError(add_error(p, expected_type, expected_value))

\* safe_consume: node is the boolean it returns
safe_consume(p, expected_type, expected_value) ==
  IF TokenIs(p, expected_type, expected_value)
  THEN Parsed(TRUE, advance(p))
  ELSE Parsed(FALSE, enter_recovery_mode(add_error(p, expected_type, expected_value)))

is_valid_token_index(index) == 1 <= index /\ index <= Len(tokens)

peek_token(p) ==
  IF is_valid_token_index(p.token_idx + 1) THEN tokens[p.token_idx + 1] ELSE PyNone

is_name_token(token) ==
  \/ token.type = TT_IDENTIFIER
  \/ token.type = TT_KEYWORD /\ token.value \notin RESERVED_KEYWORDS

is_valid_expression_token(token) ==
  /\ token.type \notin {TT_EOL, TT_EOF}
  /\ ~(token.type = TT_KEYWORD /\ token.value \in {"then", "otherwise", "end", ":"})
  /\ ~(token.type = TT_KEYWORD
       /\ token.value \in {"let", "set", "if", "while", "return", "to"})

\* get_precedence with one binding strength for all the binary operators
get_precedence_flat(p, token) ==
  IF token.type = TT_EOL THEN -1
  ELSE IF token.value = "with" THEN 7
  ELSE IF token.type = TT_PUNCTUATION /\ token.value = "."
       THEN IF peek_token(p) # PyNone /\ is_name_token(peek_token(p)) THEN 8 ELSE 0
  ELSE IF token.type = TT_PUNCTUATION /\ token.value = "[" THEN 9
  ELSE IF token.type # TT_OPERATOR THEN 0
  ELSE IF token.value \in
            {"or", "or return error", "and", "is", "is not", "is greater than",
             "is less than", "is an", "plus", "minus", "concatenated with",
             "times", "divided by"}
       THEN 1
  ELSE 0

get_precedence(p, token) ==
  IF token.type = TT_EOL THEN -1
  ELSE IF token.value = "with" THEN 7
  ELSE IF token.type = TT_PUNCTUATION /\ token.value = "."
       THEN IF peek_token(p) # PyNone /\ is_name_token(peek_token(p)) THEN 8 ELSE 0
  ELSE IF token.type = TT_PUNCTUATION /\ token.value = "[" THEN 9
  ELSE IF token.type # TT_OPERATOR THEN 0
  ELSE IF token.value \in {"or", "or return error"} THEN 1
  ELSE IF token.value = "and" THEN 2
  ELSE IF token.value \in {"is", "is not", "is greater than", "is less than", "is an"}
       THEN 3
  ELSE IF token.value \in {"plus", "minus", "concatenated with"} THEN 4
  ELSE IF token.value \in {"times", "divided by"} THEN 5
  ELSE 0

\* validate_expression_context raises no SyntaxError
validate_expression_context(p) == current_token(p).type \notin {TT_EOL, TT_EOF}

parse_name_token(p) ==
  IF is_name_token(current_token(p))
  THEN Parsed(current_token(p), advance(p))
  ELSE SyntaxError(p)

RECURSIVE parse_atom(_)
RECURSIVE parse_expression(_, _)

\* parse_atom: ( expr ) from the consume of the closing parenthesis on
parenthesized_end(expr, paren) ==
  IF paren.raised THEN paren ELSE Parsed(expr, paren.p)

\* parse_atom: ( expr ) once parse_expression has given expr
parenthesized(expr) ==
  IF expr.raised THEN expr
  ELSE parenthesized_end(expr.node, consume(expr.p, TT_PUNCTUATION, ")"))

\* parse_atom: the unary operator once parse_expression(7) has given operand
unary_operation(op_token, operand) ==
  IF operand.raised THEN operand
  ELSE Parsed(UnaryOpNode(op_token, operand.node), operand.p)

\* parse_atom on the tokens of the parser inputs: numbers, names,
\* parenthesized expressions and unary operators
parse_atom(p) ==
  IF current_token(p).type \in {TT_EOL, TT_EOF} THEN SyntaxError(p)
  ELSE IF current_token(p).type = TT_NUMBER
       THEN Parsed(NumberNode(current_token(p)), advance(p))
  ELSE IF is_name_token(current_token(p)) \/ current_token(p).value = "print"
       THEN Parsed(VarAccessNode(current_token(p)), advance(p))
  ELSE IF current_token(p).value = "("
       THEN parenthesized(parse_expression(advance(p), 0))
  ELSE IF /\ current_token(p).type = TT_OPERATOR
          /\ current_token(p).value \in
               {"not", "call", "the ok value of", "the error message of"}
       THEN unary_operation(current_token(p), parse_expression(advance(p), 7))
  ELSE SyntaxError(p)

RECURSIVE expression_loop(_, _, _)
RECURSIVE expression_operator(_, _, _)
RECURSIVE member_access(_, _, _)
RECURSIVE binary_operation(_, _, _, _)

\* parse_expression: the test that lets its loop go on at the current token
expression_continues(p, precedence) ==
  /\ current_token(p).type # TT_EOF
  /\ is_valid_expression_token(current_token(p))
  /\ precedence < get_precedence(p, current_token(p))

\* parse_expression: the loop with left parsed; at EOL tokens it looks ahead
\* for an operator, and restores the position when there is none
expression_loop(left, p, precedence) ==
  IF current_token(p).type = TT_EOL
  THEN IF expression_continues(skip_eols(p), precedence)
       THEN expression_operator(left, skip_eols(p), precedence)
       ELSE Parsed(left, p)
  ELSE expression_operator(left, p, precedence)

\* parse_expression: the loop below the EOL lookahead
expression_operator(left, p, precedence) ==
  IF ~expression_continues(p, precedence) THEN Parsed(left, p)
  ELSE IF current_token(p).value = "."
  THEN IF peek_token(p) # PyNone /\ is_name_token(peek_token(p))
       THEN member_access(left, parse_name_token(advance(p)), precedence)
       ELSE IF /\ left.k = "VarAccessNode"
               /\ \/ peek_token(p) = PyNone
                  \/ peek_token(p).type \in {TT_EOF, TT_EOL}
                  \/ /\ peek_token(p).type = TT_KEYWORD
                     /\ peek_token(p).value \in {"then", "otherwise", "end"}
       THEN Parsed(FuncCallNode(left, <<>>), p)
       ELSE Parsed(left, p)
  ELSE IF current_token(p).value = "or return error"
  THEN expression_loop(BinOpNode(left, current_token(p),
                                 VarAccessNode(Token(TT_IDENTIFIER, "error"))),
                       advance(p), precedence)
  ELSE IF /\ current_token(p).value = "is an"
          /\ current_token(skip_eols(advance(p))).type = TT_KEYWORD
          /\ current_token(skip_eols(advance(p))).value \in {"Error", "Ok"}
  THEN expression_loop(BinOpNode(left, current_token(p),
                                 TypeNameNode(current_token(skip_eols(advance(p))))),
                       advance(skip_eols(advance(p))), precedence)
  ELSE binary_operation(left, current_token(p),
                        parse_expression(skip_eols(advance(p)),
                                         get_precedence(skip_eols(advance(p)),
                                                        current_token(p))),
                        precedence)

\* parse_expression: left.member, member being what parse_name_token gave
member_access(left, member, precedence) ==
  IF member.raised THEN member
  ELSE expression_loop(MemberAccessNode(left, member.node), member.p, precedence)

\* parse_expression: left op right, right being what parse_expression gave
binary_operation(left, op_token, right, precedence) ==
  IF right.raised THEN right
  ELSE expression_loop(BinOpNode(left, op_token, right.node), right.p, precedence)

\* parse_expression once parse_atom has given atom
expression_of(atom, precedence) ==
  IF atom.raised THEN atom ELSE expression_loop(atom.node, atom.p, precedence)

parse_expression(p, precedence) == expression_of(parse_atom(p), precedence)

\* parse_return_statement from the consume of the period on
return_statement_end(expr, period) ==
  IF period.raised THEN period ELSE Parsed(ReturnNode(expr), period.p)

\* parse_return_statement from the value parse_expression gave on
return_statement_value(expr) ==
  IF expr.raised THEN expr
  ELSE return_statement_end(expr.node,
                            consume(skip_eols(expr.p), TT_PUNCTUATION, "."))

\* parse_return_statement once 'return' is consumed
return_statement_body(keyword) ==
  IF keyword.raised THEN keyword
  ELSE IF ~validate_expression_context(keyword.p) THEN SyntaxError(keyword.p)
  ELSE return_statement_value(parse_expression(keyword.p, 0))

parse_return_statement(p) ==
  return_statement_body(consume(p, TT_KEYWORD, "return"))

\* consume, one after the other, the keywords of expected from the i-th on
RECURSIVE consume_keywords(_, _, _)
consume_keywords(p, expected, i) ==
  IF i > Len(expected) THEN Parsed(PyNone, p)
  ELSE IF consume(p, TT_KEYWORD, expected[i]).raised
       THEN consume(p, TT_KEYWORD, expected[i])
  ELSE consume_keywords(advance(p), expected, i + 1)

\* parse_channel_statement from the consume of the period on
channel_statement_end(name_token, period) ==
  IF period.raised THEN period ELSE Parsed(ChannelNode(name_token), period.p)

\* parse_channel_statement from the name parse_name_token gave on
channel_statement_name(name) ==
  IF name.raised THEN name
  ELSE channel_statement_end(name.node,
                             consume(skip_eols(name.p), TT_PUNCTUATION, "."))

\* parse_channel_statement once its keywords are consumed
channel_statement_body(keywords) ==
  IF keywords.raised THEN keywords
  ELSE channel_statement_name(parse_name_token(keywords.p))

parse_channel_statement(p) ==
  channel_statement_body(
    consume_keywords(p, <<"create", "a", "channel", "named">>, 1))

\* parse_variable_assignment from the safe_consume of the period on
variable_assignment_end(name_token, value_node, period) ==
  Parsed(VarAssignNode(name_token, value_node), period.p)

\* parse_variable_assignment from the value on; a SyntaxError of
\* parse_expression leaves a placeholder, the number 0
variable_assignment_value(name_token, value) ==
  variable_assignment_end(
    name_token,
    IF value.raised THEN NumberNode(Token(TT_NUMBER, "0")) ELSE value.node,
    safe_consume(skip_eols(value.p), TT_PUNCTUATION, "."))

\* parse_variable_assignment from the safe_consume of 'be' on
variable_assignment_be(name_token, be) ==
  variable_assignment_value(
    name_token,
    IF validate_expression_context(be.p)
    THEN parse_expression(be.p, 0)
    ELSE SyntaxError(be.p))

\* parse_variable_assignment from the name on; a SyntaxError of
\* parse_name_token leaves the name "<error>"
variable_assignment_name(name) ==
  IF name.raised
  THEN variable_assignment_be(Token(TT_IDENTIFIER, "<error>"),
                              safe_consume(name.p, TT_KEYWORD, "be"))
  ELSE variable_assignment_be(
         name.node,
         safe_consume(track_variable(name.p, name.node.value), TT_KEYWORD, "be"))

parse_variable_assignment(p) ==
  IF ~safe_consume(p, TT_KEYWORD, "let").node
  THEN Parsed(PyNone, safe_consume(p, TT_KEYWORD, "let").p)
  ELSE variable_assignment_name(
         parse_name_token(safe_consume(p, TT_KEYWORD, "let").p))

\* parse_statement: the expression statement from the consume of the period on
expression_statement_end(expr, period) ==
  IF period.raised THEN period
  ELSE IF expr.k = "FuncCallNode" THEN Parsed(expr, period.p)
  ELSE IF expr.k \in {"VarAccessNode", "MemberAccessNode"}
       THEN Parsed(FuncCallNode(expr, <<>>), period.p)
  ELSE SyntaxError(period.p)

\* parse_statement: the expression statement once its expression is parsed
expression_statement(expr) ==
  IF expr.raised THEN expr
  ELSE expression_statement_end(expr.node,
                                consume(skip_eols(expr.p), TT_PUNCTUATION, "."))

RECURSIVE parse_statement(_)
RECURSIVE parse_statement_with_recovery(_)
RECURSIVE parse_statement_list(_, _)
RECURSIVE statement_list_loop(_, _, _)
RECURSIVE statement_list_pass(_, _, _)
RECURSIVE statement_list_recovered(_, _, _)
RECURSIVE parse_while_statement(_)
RECURSIVE while_statement_body(_)
RECURSIVE while_statement_condition(_)
RECURSIVE while_statement_end(_, _)
RECURSIVE parse_if_statement(_)
RECURSIVE if_statement_condition(_, _)
RECURSIVE if_statement_then(_, _, _)
RECURSIVE if_statement_case(_, _, _)
RECURSIVE if_statement_otherwise(_, _)
RECURSIVE if_statement_else(_, _)
RECURSIVE parse_function_definition(_)
RECURSIVE function_definition_name(_)
RECURSIVE function_definition_params(_, _)
RECURSIVE function_definition_colon(_, _)
RECURSIVE function_definition_body(_, _, _)
RECURSIVE parse_record_definition(_)
RECURSIVE record_definition_name(_)
RECURSIVE record_definition_colon(_)
RECURSIVE record_definition_members(_, _)
RECURSIVE record_definition_end(_, _)
RECURSIVE parse_record_members(_, _)
RECURSIVE record_members_loop(_, _, _)
RECURSIVE record_members_member(_, _, _)

\* the token i tokens on has the value
ValueAhead(p, i, value) ==
  /\ is_valid_token_index(p.token_idx + i)
  /\ tokens[p.token_idx + i].value = value

\* parse_statement on the tokens of the parser inputs: the statements of
\* let, to, if, return, while, create and define a record, and the
\* expression statement that every other token starts
parse_statement(p) ==
  IF current_token(p).type = TT_KEYWORD /\ current_token(p).value = "let"
  THEN parse_variable_assignment(p)
  ELSE IF current_token(p).type = TT_KEYWORD /\ current_token(p).value = "to"
  THEN IF ValueAhead(p, 1, "define")
       THEN parse_record_definition(p)
       ELSE parse_function_definition(p)
  ELSE IF current_token(p).type = TT_KEYWORD /\ current_token(p).value = "if"
  THEN parse_if_statement(p)
  ELSE IF current_token(p).type = TT_KEYWORD /\ current_token(p).value = "return"
  THEN parse_return_statement(p)
  ELSE IF current_token(p).type = TT_KEYWORD /\ current_token(p).value = "while"
  THEN parse_while_statement(p)
  ELSE IF /\ current_token(p).type = TT_KEYWORD
          /\ current_token(p).value = "define"
          /\ ValueAhead(p, 2, "record")
  THEN parse_record_definition(p)
  ELSE IF /\ current_token(p).type = TT_KEYWORD
          /\ current_token(p).value = "create"
          /\ is_valid_token_index(p.token_idx + 2)
          /\ tokens[p.token_idx + 2].value = "channel"
  THEN parse_channel_statement(p)
  ELSE expression_statement(parse_expression(p, 0))

\* parse_statement_with_recovery once parse_statement has given stmt
statement_with_recovery(stmt) ==
  IF stmt.raised THEN [stmt EXCEPT !.p = enter_recovery_mode(@)] ELSE stmt

parse_statement_with_recovery(p) ==
  IF current_token(p).type = TT_EOF
  THEN Parsed(PyNone, p)
  ELSE statement_with_recovery(parse_statement(p))

\* recover_to_statement_boundary: its first loop
RECURSIVE recovery_loop(_, _)
recovery_loop(p, recovery_count) ==
  IF current_token(p).type = TT_EOF \/ recovery_count >= max_recovery_tokens
  THEN [p |-> p, recovery_count |-> recovery_count]
  ELSE IF current_token(p).type = TT_PUNCTUATION /\ current_token(p).value = "."
  THEN [p |-> skip_eols(advance(p)), recovery_count |-> recovery_count]
  ELSE IF /\ current_token(p).type = TT_KEYWORD
          /\ current_token(p).value \in statement_keywords
  THEN [p |-> p, recovery_count |-> recovery_count]
  ELSE IF current_token(p).type = TT_KEYWORD /\ current_token(p).value = "end"
  THEN [p |-> p, recovery_count |-> recovery_count]
  ELSE IF current_token(p).type = TT_EOL
  THEN recovery_loop(advance(p), recovery_count)
  ELSE recovery_loop(advance(p), recovery_count + 1)

\* recover_to_statement_boundary: its second loop
RECURSIVE advance_to_eof(_)
advance_to_eof(p) ==
  IF current_token(p).type # TT_EOF THEN advance_to_eof(advance(p)) ELSE p

\* recover_to_statement_boundary once its first loop is left
recovered(loop) ==
  IF loop.recovery_count >= max_recovery_tokens THEN advance_to_eof(loop.p) ELSE loop.p

recover_to_statement_boundary(p) == recovered(recovery_loop(p, 0))

\* the current token ends the statement list: EOF or one of end_keywords
ListEnds(p, end_keywords) ==
  \/ current_token(p).type = TT_EOF
  \/ current_token(p).type = TT_KEYWORD /\ current_token(p).value \in end_keywords

\* parse_statement_list: its loop with the statements stmts parsed
statement_list_loop(stmts, p, end_keywords) ==
  IF ListEnds(p, end_keywords) THEN Parsed(stmts, p)
  ELSE statement_list_pass(stmts, parse_statement_with_recovery(p), end_keywords)

\* parse_statement_list: the pass in which parse_statement_with_recovery
\* gave stmt; a SyntaxError is recovered from inside the block
statement_list_pass(stmts, stmt, end_keywords) ==
  IF stmt.raised
  THEN statement_list_recovered(
         stmts,
         skip_eols(recover_to_statement_boundary(enter_recovery_mode(stmt.p))),
         end_keywords)
  ELSE statement_list_loop(
         IF stmt.node # PyNone THEN Append(stmts, stmt.node) ELSE stmts,
         skip_eols(stmt.p), end_keywords)

\* parse_statement_list: after a recovery the loop is left at a block end
statement_list_recovered(stmts, p, end_keywords) ==
  IF current_token(p).type = TT_KEYWORD /\ current_token(p).value \in end_keywords
  THEN Parsed(stmts, p)
  ELSE statement_list_loop(stmts, p, end_keywords)

parse_statement_list(p, end_keywords) ==
  statement_list_loop(<<>>, skip_eols(p), end_keywords)

\* parse_while_statement from the consume of 'end' on
while_statement_end(condition, body) ==
  IF consume(body.p, TT_KEYWORD, "end").raised
  THEN consume(body.p, TT_KEYWORD, "end")
  ELSE Parsed(WhileNode(condition, body.node), consume(body.p, TT_KEYWORD, "end").p)

\* parse_while_statement once its condition is parsed
while_statement_condition(condition) ==
  IF condition.raised THEN condition
  ELSE while_statement_end(
         condition.node,
         parse_statement_list(
           skip_eols(IF TokenIs(condition.p, TT_PUNCTUATION, ":")
                     THEN advance(condition.p) ELSE condition.p),
           {"end"}))

\* parse_while_statement once 'while' is consumed
while_statement_body(keyword) ==
  IF keyword.raised THEN keyword
  ELSE while_statement_condition(parse_expression(keyword.p, 0))

parse_while_statement(p) == while_statement_body(consume(p, TT_KEYWORD, "while"))

\* parse_if_statement: a case from its condition on; a SyntaxError of
\* parse_expression leaves a placeholder, the number 1
if_statement_condition(cases, condition) ==
  if_statement_then(cases,
                    IF condition.raised THEN NumberNode(NUM("1")) ELSE condition.node,
                    safe_consume(skip_eols(condition.p), TT_KEYWORD, "then"))

\* parse_if_statement: a case from the safe_consume of 'then' on
if_statement_then(cases, condition, then) ==
  if_statement_case(cases, condition,
                    parse_statement_list(skip_eols(then.p), {"otherwise", "end"}))

\* parse_if_statement: a case once its statements are parsed
if_statement_case(cases, condition, stmts) ==
  if_statement_otherwise(Append(cases, <<condition, stmts.node>>), stmts.p)

\* parse_if_statement: the else case parsed, the safe_consume of 'end'
if_statement_else(cases, else_case) ==
  Parsed(IfNode(cases, else_case.node),
         safe_consume(else_case.p, TT_KEYWORD, "end").p)

\* parse_if_statement: the loop over the otherwise clauses, and the
\* safe_consume of 'end'; else_case is <<>> when there is none
if_statement_otherwise(cases, p) ==
  IF TokenIs(p, TT_KEYWORD, "otherwise")
  THEN IF TokenIs(advance(p), TT_KEYWORD, "if")
       THEN if_statement_condition(cases, parse_expression(advance(advance(p)), 0))
       ELSE if_statement_else(cases,
                              parse_statement_list(skip_eols(advance(p)), {"end"}))
  ELSE Parsed(IfNode(cases, <<>>), safe_consume(p, TT_KEYWORD, "end").p)

parse_if_statement(p) ==
  IF ~safe_consume(p, TT_KEYWORD, "if").node
  THEN Parsed(PyNone, safe_consume(p, TT_KEYWORD, "if").p)
  ELSE if_statement_condition(
         <<>>, parse_expression(safe_consume(p, TT_KEYWORD, "if").p, 0))

\* parse_function_definition: the loop over the parameters
RECURSIVE function_definition_param_loop(_, _)
function_definition_param_loop(params, p) ==
  IF is_name_token(current_token(p))
  THEN IF TokenIs(advance(p), TT_PUNCTUATION, ",")
       THEN function_definition_param_loop(Append(params, current_token(p)),
                                           advance(advance(p)))
       ELSE Parsed(Append(params, current_token(p)), advance(p))
  ELSE Parsed(params, p)

\* parse_function_definition from the safe_consume of 'end' on
function_definition_body(name_token, params, body) ==
  Parsed(FuncDefNode(name_token, params, body.node),
         safe_consume(body.p, TT_KEYWORD, "end").p)

\* parse_function_definition from the safe_consume of the colon on
function_definition_colon(name_token, params) ==
  function_definition_body(
    name_token, params.node,
    parse_statement_list(
      skip_eols(safe_consume(params.p, TT_PUNCTUATION, ":").p), {"end"}))

\* parse_function_definition from the parameters on
function_definition_params(name_token, p) ==
  IF TokenIs(p, TT_KEYWORD, "with")
  THEN function_definition_colon(name_token,
                                 function_definition_param_loop(<<>>, advance(p)))
  ELSE function_definition_colon(name_token, Parsed(<<>>, p))

\* parse_function_definition from the name on; a SyntaxError of
\* parse_name_token leaves the name "<error_function>"
function_definition_name(name) ==
  function_definition_params(
    IF name.raised THEN ID("<error_function>") ELSE name.node, name.p)

parse_function_definition(p) ==
  IF ~safe_consume(p, TT_KEYWORD, "to").node
  THEN Parsed(PyNone, safe_consume(p, TT_KEYWORD, "to").p)
  ELSE function_definition_name(
         parse_name_token(safe_consume(p, TT_KEYWORD, "to").p))

\* parse_property_definition from the safe_consume of the period on
property_definition_end(name_token, default_value, p) ==
  Parsed(PropertyDefNode(name_token, default_value),
         safe_consume(skip_eols(p), TT_PUNCTUATION, ".").p)

\* parse_property_definition: the default value parse_expression gave; a
\* SyntaxError leaves a placeholder, the empty string
property_definition_value(name_token, value) ==
  property_definition_end(
    name_token,
    IF value.raised THEN StringNode(Token(TT_STRING, "")) ELSE value.node,
    value.p)

\* parse_property_definition: there is a value to parse at the current token
property_has_value(p) ==
  /\ current_token(p).type \notin {TT_EOL, TT_EOF}
  /\ ~TokenIs(p, TT_KEYWORD, "end")
  /\ ~TokenIs(p, TT_PUNCTUATION, ".")

\* parse_property_definition from the default value on
property_definition_default(name_token, p) ==
  IF current_token(p).type = TT_KEYWORD /\ current_token(p).value \in {"be", "with"}
  THEN IF property_has_value(advance(p))
       THEN property_definition_value(name_token, parse_expression(advance(p), 0))
       ELSE property_definition_end(name_token, StringNode(Token(TT_STRING, "")),
                                    advance(p))
  ELSE property_definition_end(name_token, PyNone, p)

\* parse_property_definition from the name on; a SyntaxError of
\* parse_name_token leaves the name "<error_property>"
property_definition_name(name) ==
  property_definition_default(
    IF name.raised THEN ID("<error_property>") ELSE name.node, name.p)

parse_property_definition(p) ==
  IF ~safe_consume(p, TT_KEYWORD, "property").node
  THEN Parsed(PyNone, safe_consume(p, TT_KEYWORD, "property").p)
  ELSE property_definition_name(
         parse_name_token(safe_consume(p, TT_KEYWORD, "property").p))

\* parse_record_members: the member parsed; a SyntaxError of parse_statement
\* has no handler here
record_members_member(members, member, end_keywords) ==
  IF member.raised THEN member
  ELSE record_members_loop(Append(members, member.node), skip_eols(member.p),
                           end_keywords)

\* parse_record_members: its loop with the members parsed
record_members_loop(members, p, end_keywords) ==
  IF ListEnds(p, end_keywords) THEN Parsed(members, p)
  ELSE IF TokenIs(p, TT_KEYWORD, "property")
  THEN record_members_member(members, parse_property_definition(p), end_keywords)
  ELSE record_members_member(members, parse_statement(p), end_keywords)

parse_record_members(p, end_keywords) ==
  record_members_loop(<<>>, skip_eols(p), end_keywords)

\* parse_record_definition from the consume of 'end' on
record_definition_end(name_token, members) ==
  IF members.raised THEN members
  ELSE IF consume(members.p, TT_KEYWORD, "end").raised
  THEN consume(members.p, TT_KEYWORD, "end")
  ELSE Parsed(RecordDefNode(name_token, members.node),
              consume(members.p, TT_KEYWORD, "end").p)

\* parse_record_definition from the consume of the colon on
record_definition_members(name_token, colon) ==
  IF colon.raised THEN colon
  ELSE record_definition_end(name_token, parse_record_members(colon.p, {"end"}))

\* parse_record_definition from the name on
record_definition_colon(name) ==
  IF name.raised THEN name
  ELSE record_definition_members(name.node, consume(name.p, TT_PUNCTUATION, ":"))

\* parse_record_definition once its keywords are consumed
record_definition_name(keywords) ==
  IF keywords.raised THEN keywords
  ELSE record_definition_colon(parse_name_token(keywords.p))

parse_record_definition(p) ==
  IF current_token(p).value = "to"
  THEN record_definition_name(consume_keywords(p, <<"to", "define">>, 1))
  ELSE record_definition_name(
         consume_keywords(p, <<"define", "a", "record", "named">>, 1))

\* parse(): the parser and the statements after the pass of the loop in
\* which parse_statement_with_recovery gave stmt; an exception that is no
\* SyntaxError is not handled
parse_pass(stmt, stmts) ==
  IF stmt.raised /\ stmt.type = "SyntaxError"
  THEN [raised |-> FALSE, statements |-> stmts,
        p |-> skip_eols(recover_to_statement_boundary(enter_recovery_mode(stmt.p)))]
  ELSE IF stmt.raised
  THEN [raised |-> TRUE, statements |-> stmts, p |-> stmt.p]
  ELSE [raised |-> FALSE,
        statements |-> IF stmt.node # PyNone THEN Append(stmts, stmt.node) ELSE stmts,
        p |-> skip_eols(stmt.p)]

\* the parser as the variables hold it
TheParser == ParserState(token_idx, errors, recovery_mode, available_variables)

\* the parser becomes p
ParserBecomes(p) ==
  /\ token_idx' = p.token_idx
  /\ errors' = p.errors
  /\ recovery_mode' = p.recovery_mode
  /\ available_variables' = p.available_variables

\* no program is run
NoProgram ==
  /\ program = <<>>
  /\ pc = 1
  /\ error_count = 0
  /\ result = PyNone
  /\ status = "done"
  /\ results = <<>>
  /\ scopes = <<>>
  /\ fibers = <<>>
  /\ frames = <<>>
  /\ out = <<>>
  /\ channels = <<>>
  /\ tables = <<>>
  /\ threads = <<>>

\* Parser(tokens): the parser after __init__, at its first token
InitParse ==
  /\ tokens \in ParserInputs
  /\ token_idx = 1
  /\ errors = <<>>
  /\ recovery_mode = FALSE
  /\ available_variables = {}
  /\ statements = <<>>
  /\ parse_status = "constructed"
  /\ parse_result = PyNone
  /\ NoProgram
  /\ NoModules

\* parse() up to its loop
ParseEnter ==
  /\ parse_status = "constructed"
  /\ statements' = <<>>
  /\ ParserBecomes(skip_eols(TheParser))
  /\ parse_status' = "parsing"
  /\ UNCHANGED <<tokens, parse_result, progVars, concVars, modVars>>

\* parse() after the pass of its loop that gave pass
ParsePassed(pass) ==
  /\ ParserBecomes(pass.p)
  /\ statements' = pass.statements
  /\ IF pass.raised
     THEN parse_status' = "raised" /\ parse_result' = [k |-> "Exception"]
     ELSE parse_status' = "parsing" /\ parse_result' = parse_result

\* the pass of the loop of parse() from the parser p
NextPass(p) ==
  parse_pass(parse_statement_with_recovery(exit_recovery_mode(p)), statements)

\* one pass of the loop of parse()
ParsePass ==
  /\ parse_status = "parsing"
  /\ current_token(TheParser).type # TT_EOF
  /\ ParsePassed(NextPass(TheParser))
  /\ UNCHANGED <<tokens, progVars, concVars, modVars>>

\* parse() leaves its loop and returns
ParseReturn ==
  /\ parse_status = "parsing"
  /\ current_token(TheParser).type = TT_EOF
  /\ parse_status' = "returned"
  /\ parse_result' = ProgramNode(statements)
  /\ UNCHANGED <<tokens, token_idx, errors, recovery_mode, available_variables,
                 statements, progVars, concVars, modVars>>

NextParse == ParseEnter \/ ParsePass \/ ParseReturn

SpecParse == InitParse /\ [][NextParse]_vars

(***************************************************************************)
(* The module system: ModuleSystem of engage_modules.py and the import and *)
(* export statements of the interpreter. A module is named by the path of  *)
(* its file; the files are not modified while the program runs.            *)
(***************************************************************************)
ImportNode(module_name) ==
  [k |-> "ImportNode", module_name |-> module_name, alias |-> PyNone]
ExportVarNode(name, n) == [k |-> "ExportVarNode", name |-> name, value_node |-> n]

\* the statements of the module m of each kind: a binding, an exported
\* binding, the import of the other module, and a call of print, which no
\* module can see
OtherModule(m) == IF m = "a" THEN "b" ELSE "a"
LetName(m) == IF m = "a" THEN "a_x" ELSE "b_x"
ExportName(m) == IF m = "a" THEN "a_e" ELSE "b_e"
StatementKinds == {"let", "export", "import", "print"}
ModuleStatement(m, kind) ==
  CASE kind = "let" -> VarAssignNode(LetName(m), NumberNode(1))
    [] kind = "export" -> ExportVarNode(ExportName(m), NumberNode(2))
    [] kind = "import" -> ImportNode(OtherModule(m))
    [] kind = "print" -> PrintStmt(3)

\* the module a: every body of at most MaxModuleLen statements
MaxModuleLen == 3
BodiesOfA ==
  { [i \in 1..Len(kinds) |-> ModuleStatement("a", kinds[i])] :
      kinds \in UNION { [1..n -> StatementKinds] : n \in 0..MaxModuleLen } }

\* the module b: nothing, a binding, an export, an export and the import of a
BodiesOfB ==
  { <<>>,
    <<ModuleStatement("b", "let")>>,
    <<ModuleStatement("b", "export")>>,
    <<ModuleStatement("b", "import"), ModuleStatement("b", "export")>>,
    <<ModuleStatement("b", "export"), ModuleStatement("b", "import")>> }

\* the main program: imports of a, of b and of a module that has no file
MainPrograms ==
  { <<ImportNode("a")>>,
    <<ImportNode("a"), ImportNode("a")>>,
    <<ImportNode("a"), ImportNode("b")>>,
    <<ImportNode("b"), ImportNode("a")>>,
    <<ImportNode("c"), ImportNode("a")>> }

ModulePrograms ==
  { [main |-> main, a |-> a, b |-> b] :
      main \in MainPrograms, a \in BodiesOfA, b \in BodiesOfB }

\* the calls of execute_module that the stack of the Python interpreter has
\* room for, the call of run() counted
MaxCalls == 4

ModuleInfo(name, path, symbol_table) ==
  [name |-> name, file_path |-> path, symbol_table |-> symbol_table,
   exports |-> <<>>, is_loaded |-> FALSE, is_loading |-> FALSE]

\* an element of a set that is not empty
Pick(set) == CHOOSE d \in set : TRUE

\* DependencyGraph.has_circular_dependency: its dfs, the visited set handed on
RECURSIVE dfs(_, _, _, _)
RECURSIVE dfs_each(_, _, _, _)
RECURSIVE dfs_next(_, _, _, _)
dfs(deps, current, target, visited) ==
  IF current = target THEN [found |-> TRUE, visited |-> visited]
  ELSE IF current \in visited THEN [found |-> FALSE, visited |-> visited]
  ELSE dfs_each(deps, IF current \in DOMAIN deps THEN deps[current] ELSE {},
                target, visited \cup {current})

\* dfs: the loop over the dependencies of the current module
dfs_each(deps, todo, target, visited) ==
  IF todo = {} THEN [found |-> FALSE, visited |-> visited]
  ELSE dfs_next(deps, todo \ {Pick(todo)}, target,
                dfs(deps, Pick(todo), target, visited))

\* dfs: the loop once the dfs of one dependency has given r
dfs_next(deps, todo, target, r) ==
  IF r.found THEN r ELSE dfs_each(deps, todo, target, r.visited)

has_circular_dependency(deps, from_module, to_module) ==
  dfs(deps, to_module, from_module, {}).found

add_dependency(deps, from_module, to_module) ==
  DictSet(deps, from_module,
          IF from_module \in DOMAIN deps
          THEN deps[from_module] \cup {to_module} ELSE {to_module})

\* DependencyGraph.start_loading raises no CircularDependencyError
start_loading_ok(stack, module_path) ==
  \A i \in 1..Len(stack) : stack[i] # module_path
start_loading(stack, module_path) == Append(stack, module_path)

finish_loading(stack, module_path) ==
  IF stack # <<>> /\ stack[Len(stack)] = module_path
  THEN SubSeq(stack, 1, Len(stack) - 1) ELSE stack

\* ModuleCache.get_module finds the module, and it is loaded
cached_and_loaded(module_path) ==
  module_path \in DOMAIN modules /\ modules[module_path].is_loaded

\* what load_module leaves: the exception it raises, if any, and the module
\* system and the symbol tables after it
Loaded(raised, mods, deps, stack, tables_) ==
  [raised |-> raised, modules |-> mods, dependencies |-> deps,
   loading_stack |-> stack, scopes |-> tables_]

\* load_module from start_loading on: the ModuleInfo is cached with a new
\* SymbolTable() and marked loaded
load_module_file(module_name, deps) ==
  IF ~start_loading_ok(loading_stack, module_name)
  THEN Loaded("CircularDependencyError", modules, deps, loading_stack, scopes)
  ELSE Loaded("",
              DictSet(modules, module_name,
                      [ModuleInfo(module_name, module_name, Len(scopes) + 1)
                         EXCEPT !.is_loaded = TRUE]),
              deps,
              finish_loading(start_loading(loading_stack, module_name), module_name),
              SymbolTable(scopes, 0))

load_module(module_name, current_file) ==
  IF module_name \notin DOMAIN files
  THEN Loaded("ModuleNotFoundError", modules, dependencies, loading_stack, scopes)
  ELSE IF cached_and_loaded(module_name)
  THEN Loaded("", modules, dependencies, loading_stack, scopes)
  ELSE IF current_file # ""
  THEN IF has_circular_dependency(dependencies, current_file, module_name)
       THEN Loaded("CircularDependencyError", modules, dependencies, loading_stack,
                   scopes)
       ELSE load_module_file(module_name,
                             add_dependency(dependencies, current_file, module_name))
  ELSE load_module_file(module_name, dependencies)

\* a call of visit_ProgramNode: the file, its statements, the symbol table,
\* the statement to visit next, the errors counted, and the file_path that
\* execute_module puts back
Call(file, ast, context, old_file_path) ==
  [file |-> file, ast |-> ast, context |-> context, ip |-> 1, error_count |-> 0,
   old_file_path |-> old_file_path]

\* the innermost call and its statement
TopCall == calls[Len(calls)]
TopStatement == TopCall.ast[TopCall.ip]

\* the call after its statement has raised: the error is counted, the loop
\* goes on or is left at max_errors
CallAfterError(call) ==
  [call EXCEPT !.error_count = @ + 1,
               !.ip = IF call.error_count + 1 >= max_errors
                      THEN Len(call.ast) + 1 ELSE @ + 1]

\* visit_ImportNode without alias: every export is set in the context
RECURSIVE import_exports(_, _, _)
import_exports(tables_, context, exports) ==
  IF DOMAIN exports = {} THEN tables_
  ELSE import_exports(
         SymbolTable_set(tables_, context, Pick(DOMAIN exports),
                         exports[Pick(DOMAIN exports)]),
         context,
         [n \in DOMAIN exports \ {Pick(DOMAIN exports)} |-> exports[n]])

\* run(): the main program is visited, no module is loaded
InitMod ==
  /\ files \in ModulePrograms
  /\ modules = <<>>
  /\ dependencies = <<>>
  /\ loading_stack = <<>>
  /\ current_exports = <<>>
  /\ file_path = "main"
  /\ calls = <<Call("main", files.main, 1, "")>>
  /\ executions = <<>>
  /\ imported = <<>>
  /\ import_errors = <<>>
  /\ program = <<>>
  /\ pc = 1
  /\ error_count = 0
  /\ result = PyNone
  /\ status = "done"
  /\ results = <<>>
  /\ scopes = <<global_symbol_table>>
  /\ fibers = <<>>
  /\ frames = push_frame(<<>>, "<main>")
  /\ out = <<>>
  /\ channels = <<>>
  /\ tables = <<>>
  /\ threads = <<>>
  /\ NoParser

\* visit_ImportNode: import_module raises; the exception becomes an Import
\* Error that the loop of visit_ProgramNode counts
ImportRaises(module_name, type, load) ==
  /\ import_errors' = Append(import_errors, [module |-> module_name, type |-> type])
  /\ calls' = [calls EXCEPT ![Len(calls)] = CallAfterError(@)]
  /\ modules' = load.modules
  /\ dependencies' = load.dependencies
  /\ loading_stack' = load.loading_stack
  /\ scopes' = load.scopes
  /\ UNCHANGED <<current_exports, file_path, executions, imported>>

\* visit_ImportNode: import_module returns the exports the module has
ImportReturns(module_name, load) ==
  /\ imported' = Append(imported, [module |-> module_name,
                                   exports |-> load.modules[module_name].exports])
  /\ scopes' = import_exports(load.scopes, TopCall.context,
                              load.modules[module_name].exports)
  /\ calls' = [calls EXCEPT ![Len(calls)].ip = @ + 1]
  /\ modules' = load.modules
  /\ dependencies' = load.dependencies
  /\ loading_stack' = load.loading_stack
  /\ UNCHANGED <<current_exports, file_path, executions, import_errors>>

\* visit_ImportNode: import_module calls execute_module, which visits the
\* statements of the module in the symbol table of its ModuleInfo
ImportExecutes(module_name, load) ==
  /\ executions' = Append(executions, module_name)
  /\ current_exports' = <<>>
  /\ file_path' = module_name
  /\ calls' = Append(calls, Call(module_name, files[module_name],
                                 load.modules[module_name].symbol_table, file_path))
  /\ modules' = load.modules
  /\ dependencies' = load.dependencies
  /\ loading_stack' = load.loading_stack
  /\ scopes' = load.scopes
  /\ UNCHANGED <<imported, import_errors>>

\* visit_ImportNode once load_module has given load: execute_module is
\* called when the exports of the module are empty; with no room on the
\* stack of Python it raises RecursionError
ImportLoaded(module_name, load) ==
  IF load.raised # "" THEN ImportRaises(module_name, load.raised, load)
  ELSE IF load.modules[module_name].exports # <<>>
  THEN ImportReturns(module_name, load)
  ELSE IF Len(calls) >= MaxCalls
  THEN ImportRaises(module_name, "RecursionError", load)
  ELSE ImportExecutes(module_name, load)

\* the import statement of the innermost call
VisitImport ==
  /\ calls # <<>>
  /\ TopCall.ip <= Len(TopCall.ast)
  /\ TopStatement.k = "ImportNode"
  /\ ImportLoaded(TopStatement.module_name,
                  load_module(TopStatement.module_name, file_path))
  /\ UNCHANGED <<files, fibers, frames, out, program, pc, error_count, result,
                 status, results, concVars, parseVars>>

\* visit_ExportVarNode: the value is set in the context and registered in
\* current_exports
visit_ExportVarNode(node, context, st) ==
  visit_VarAssignNode(VarAssignNode(node.name, node.value_node), context, st)

\* register_export, when the statement is an export that has not raised
register_export(node, r) ==
  IF node.k = "ExportVarNode" /\ ~r.exc
  THEN DictSet(current_exports, node.name, r.v)
  ELSE current_exports

\* the loop of visit_ProgramNode after the statement has given r
ModuleStatementVisited(r) ==
  /\ scopes' = r.st.scopes
  /\ fibers' = r.st.fibers
  /\ out' = r.st.out
  /\ frames' = r.st.frames
  /\ current_exports' = register_export(TopStatement, r)
  /\ calls' = [calls EXCEPT ![Len(calls)] =
                 IF r.exc THEN CallAfterError(@)
                 ELSE IF r.v.t \in {"ReturnValue", "YieldValue"}
                      THEN [@ EXCEPT !.ip = Len(@.ast) + 1]
                      ELSE [@ EXCEPT !.ip = @ + 1]]

\* a statement of the innermost call that is no import
VisitModuleStatement ==
  /\ calls # <<>>
  /\ TopCall.ip <= Len(TopCall.ast)
  /\ TopStatement.k # "ImportNode"
  /\ ModuleStatementVisited(
       IF TopStatement.k = "ExportVarNode"
       THEN visit_ExportVarNode(TopStatement, TopCall.context, Heap(frames))
       ELSE visit(TopStatement, TopCall.context, Heap(frames)))
  /\ UNCHANGED <<files, modules, dependencies, loading_stack, file_path,
                 executions, imported, import_errors, program, pc, error_count,
                 result, status, results, concVars, parseVars>>

\* execute_module: the exports of the module whose statements are visited
module_exports(context) ==
  IF current_exports # <<>> THEN current_exports ELSE scopes[context].symbols

\* visit_ProgramNode returns to execute_module, execute_module and
\* import_module return the exports to visit_ImportNode
ModuleReturn ==
  /\ Len(calls) > 1
  /\ TopCall.ip > Len(TopCall.ast)
  /\ modules' = [modules EXCEPT ![TopCall.file].exports =
                   module_exports(TopCall.context)]
  /\ file_path' = TopCall.old_file_path
  /\ imported' = Append(imported, [module |-> TopCall.file,
                                   exports |-> module_exports(TopCall.context)])
  /\ scopes' = import_exports(scopes, calls[Len(calls) - 1].context,
                              module_exports(TopCall.context))
  /\ calls' = [SubSeq(calls, 1, Len(calls) - 1) EXCEPT ![Len(calls) - 1].ip = @ + 1]
  /\ UNCHANGED <<files, dependencies, loading_stack, current_exports, executions,
                 import_errors, fibers, frames, out, program, pc, error_count,
                 result, status, results, concVars, parseVars>>

\* visit_ProgramNode of the main program returns to run()
MainReturn ==
  /\ Len(calls) = 1
  /\ TopCall.ip > Len(TopCall.ast)
  /\ calls' = <<>>
  /\ frames' = pop_frame(frames)
  /\ UNCHANGED <<files, modules, dependencies, loading_stack, current_exports,
                 file_path, executions, imported, import_errors, scopes, fibers,
                 out, program, pc, error_count, result, status, results, concVars,
                 parseVars>>

NextMod == VisitImport \/ VisitModuleStatement \/ ModuleReturn \/ MainReturn

SpecMod == InitMod /\ [][NextMod]_vars



(***************************************************************************)
(* Properties of the single-threaded interpreter (SpecProg).               *)
(***************************************************************************)
\* the set of elements of a sequence
Range(seq) == { seq[i] : i \in 1..Len(seq) }

\* the program is one of ErrorPrograms and passes an Error as X
PassesError ==
  /\ Len(program) = 5
  /\ program[1].k = "FuncDefNode"
  /\ program[3].value_node.arg_nodes[1] = ResultNode("Error", NumberNode(5))

\* C1: when the body of f evaluates `X or return error` with X an Error
\* ResultValue, at any nesting depth, the call of f returns that Error to its
\* caller as an ordinary value and no later statement of f runs (print 1 is
\* never written); a caller g then continues normally (it prints 3 and
\* returns the Error it got).
C1_OrReturnErrorReturnsTheError ==
  PassesError =>
    /\ Len(results) >= 3 =>
         /\ ~results[3].exc
         /\ results[3].v = ResultValue("Error", Number(5))
         /\ 1 \notin Range(out)
    /\ Len(results) >= 4 =>
         /\ ~results[4].exc
         /\ results[4].v = ResultValue("Error", Number(5))
         /\ 3 \in Range(out)

\* the program defines a fiber
IsFiberProgram == Len(program) >= 2 /\ program[2].k = "FiberDefNode"
FiberBody == program[2].body_nodes
\* the value of the i-th `call fib` executed so far
CallResult(i) == results[2 + i]
CallsDone == Len(results) - 2

\* the positions of the yield statements of the fiber body
YieldPositions == { i \in 1..Len(FiberBody) : FiberBody[i].k = "YieldNode" }
\* the body is made of exactly two yield statements and plain statements
TwoYieldBody ==
  /\ IsFiberProgram
  /\ \A i \in 1..Len(FiberBody) : FiberBody[i].k \in {"YieldNode", "FuncCallNode"}
  /\ Cardinality(YieldPositions) = 2
FirstYield == CHOOSE i \in YieldPositions : \A j \in YieldPositions : i <= j
SecondYield == CHOOSE i \in YieldPositions : \A j \in YieldPositions : j <= i

FirstIsBlockWithYield == IsFiberProgram /\ FiberBody[1].k \in {"IfNode", "WhileNode"}

\* C4: after a yield inside an if or while block of the fiber body, the
\* next call resumes with the statement that follows the yield in the block
\* (the print after it runs), and a while loop goes on with its remaining
\* iterations (the second call yields from the loop again).
C4_ResumesAfterNestedYield ==
  (FirstIsBlockWithYield /\ CallsDone >= 2) =>
    /\ FiberBody[1].k = "IfNode" => 15 \in Range(out)
    /\ FiberBody[1].k = "WhileNode" =>
         /\ 17 \in Range(out)
         /\ CallResult(2) = [exc |-> FALSE, v |-> Number(16)]

\* this step executes a `call` of a fiber that is done
CallOfDoneFiber ==
  /\ IsFiberProgram
  /\ pc > 2
  /\ fibers[1].is_done
  /\ Len(results') = Len(results) + 1

\* C5: once a fiber is done (it ran past the end of its body or executed a
\* return), every later call returns Number(0), runs no body statement
\* (nothing is printed) and leaves the fiber's ip, is_done flag and scope as
\* they are.
C5_DoneIsAbsorbing ==
  [][CallOfDoneFiber =>
       /\ results'[Len(results')] = [exc |-> FALSE, v |-> Number(0)]
       /\ out' = out
       /\ fibers' = fibers
       /\ fibers[1].context # 0 => scopes'[fibers[1].context] = scopes[fibers[1].context]]_vars

\* a fiber ended by a return in its first statement has been called again
C5_Witness ==
  /\ IsFiberProgram
  /\ FiberBody[1].k = "ReturnNode"
  /\ CallsDone >= 2
  /\ fibers[1].is_done
  /\ fibers[1].ip = 0
  /\ CallResult(CallsDone).v = Number(0)

\* the program is one of SoftFailPrograms
IsSoftFailProgram == Len(program) = ProgLen /\ ~IsFiberProgram
Errors == { i \in 1..Len(results) : results[i].exc }

\* C7: a top-level statement that raises a runtime error is counted and the
\* loop goes on with the next statement in program order: the i-th outcome
\* is the outcome of statement i (none retried, none skipped); the loop
\* stops with the 10th error, and otherwise runs every statement.
C7_SoftFailLoop ==
  IsSoftFailProgram =>
    /\ \A i \in 1..Len(results) : results[i].exc <=> program[i] # StmtOk
    /\ error_count = Cardinality(Errors)
    /\ error_count <= max_errors
    /\ status = "running" => pc = Len(results) + 1
    /\ error_count = max_errors => status # "running" /\ results[Len(results)].exc
    /\ (status = "done" /\ error_count < max_errors) => Len(results) = Len(program)

\* the 10th error stopped the program before its last statement
C7_Witness ==
  /\ IsSoftFailProgram
  /\ status = "done"
  /\ error_count = max_errors
  /\ Len(results) < Len(program)
  /\ \E i \in 1..Len(results) : ~results[i].exc

(***************************************************************************)
(* Properties of the threads machine (SpecConc, SpecConcFair).             *)
(***************************************************************************)
IsChannelProgram == program \in ChannelPrograms
\* the values the program sends, in the order of its send statements
Sent ==
  IF IsChannelProgram
  THEN Messages(CHOOSE n \in 1..NumMsgs :
                  \E pl \in Placements : program = ChannelProgram(n, pl))
  ELSE <<>>
Ended(i) == threads[i].state \in {"done", "failed"}
AllEnded == threads[1].state = "done" /\ \A i \in 1..Len(threads) : Ended(i)

\* C2: the values sent through one channel, by the main thread, by a task or
\* by both one after the other, are received in the order of their sends:
\* what the receiver has printed is always a prefix of what was sent, and the
\* queue holds the values sent and not yet received in send order.
C2_ChannelFIFO ==
  IsChannelProgram =>
    /\ Len(out) <= Len(Sent)
    /\ out = SubSeq(Sent, 1, Len(out))
    /\ \A c \in 1..Len(channels) :
         \E from \in 1..Len(Sent) + 1 :
           /\ from + Len(channels[c].queue) - 1 <= Len(Sent)
           /\ channels[c].queue =
                [i \in 1..Len(channels[c].queue) |-> Number(Sent[from + i - 1])]

\* the main thread has sent a, b, c and the sentinel before the first
\* receive, and the receives have returned them in that order
C2_Witness ==
  /\ program = ChannelProgram(NumMsgs, "main sends")
  /\ out = Messages(NumMsgs)

\* thread th is at a `let name be receive from channel`
AtReceive(th) ==
  /\ HasNext(th)
  /\ th.pending = PyNone
  /\ Current(th).k = "VarAssignNode"
  /\ Current(th).value_node.k = "ReceiveNode"
\* the queue of the channel that receive reads
ReceiveQueue(th) ==
  channels[SymbolTable_get(scopes, th.context,
                           Current(th).value_node.channel_node.name).id].queue
\* the only statements a thread ever waits in are receives, never a send
C6_OnlyReceiveWaits ==
  \A i \in 1..Len(threads) : threads[i].state = "waiting" => AtReceive(threads[i])
\* a thread starts to wait only when the channel is empty
C6_WaitsOnEmpty(i) ==
  ( /\ i <= Len(threads)
    /\ threads[i].state = "running"
    /\ threads'[i].state = "waiting" ) => ReceiveQueue(threads[i]) = <<>>
\* a receive that returns found a value in the queue and returns its first one
C6_ReceiveReturns(i) ==
  ( /\ i <= Len(threads)
    /\ ~Ended(i)
    /\ AtReceive(threads[i])
    /\ threads'[i] # threads[i]
    /\ threads'[i].state # "waiting" ) =>
      /\ ReceiveQueue(threads[i]) # <<>>
      /\ SymbolTable_get(scopes', threads[i].context, Current(threads[i]).name)
           = Head(ReceiveQueue(threads[i]))
\* the receive loop has seen the sentinel and every thread has ended
C6_LoopDone == AllEnded /\ out = Sent /\ status = "done"

\* C6: a send never waits (a thread only ever waits in a receive on an empty
\* channel), a receive returns only once a value has been sent and returns
\* the oldest one, and when n values ending with a sentinel are sent and a
\* thread loops on receive until it sees the sentinel, then under fair
\* scheduling the loop receives the n values in send order and ends.
C6_SentinelLoopTerminates ==
  /\ []C6_OnlyReceiveWaits
  /\ [][\A i \in 1..MaxThreads : C6_WaitsOnEmpty(i) /\ C6_ReceiveReturns(i)]_vars
  /\ (IsChannelProgram ~> C6_LoopDone)

\* the receiver has waited on the empty channel of a task that sends: the
\* main thread waits while the task has not sent its first value
C6_Witness ==
  /\ program = ChannelProgram(NumMsgs, "task sends")
  /\ threads[1].state = "waiting"
  /\ Len(threads) = 2
  /\ threads[2].ip = 1

IsTaskErrorProgram == program \in TaskErrorPrograms
TaskFails == program[1].body_nodes[1] = StmtBad(1)
MainFails == program[3] = StmtBad(2)
\* what the main thread has printed
MainOut == SelectSeq(out, LAMBDA x : x \in {2, 3})
\* the main thread never counts another error than its own, and when it has
\* ended it has run all its statements
C8_SpawnerUnaffected ==
  IsTaskErrorProgram =>
    /\ error_count <= IF MainFails THEN 1 ELSE 0
    /\ threads[1].state = "done" =>
         /\ MainOut = <<2, 3>>
         /\ error_count = IF MainFails THEN 1 ELSE 0
         /\ status = "done"
\* the step of `run concurrently` leaves the task at its first statement
C8_ReturnsAtOnce ==
  (IsTaskErrorProgram /\ threads[1].ip = 1 /\ threads'[1].ip = 2) =>
    /\ Len(threads') = 2
    /\ threads'[2].ip = 1
    /\ threads'[2].state = "running"
    /\ out' = out
    /\ error_count' = error_count
\* a step of a task leaves the main thread where it is
C8_TaskStepsAreLocal ==
  (\E i \in 2..MaxThreads : TaskStep(i)) =>
    /\ threads'[1] = threads[1]
    /\ error_count' = error_count
    /\ status' = status

\* C8: `run concurrently` returns to the spawning thread at once, the task
\* body not yet started, and a runtime error in the task body changes
\* nothing for the spawner: its later statements run and its error count
\* counts its own errors only.
C8_TaskIsFireAndForget ==
  /\ []C8_SpawnerUnaffected
  /\ [][C8_ReturnsAtOnce /\ C8_TaskStepsAreLocal]_vars

\* the task has failed, the spawner has run to its end without an error
C8_Witness ==
  /\ IsTaskErrorProgram
  /\ TaskFails /\ ~MainFails
  /\ threads[1].state = "done"
  /\ Len(threads) = 2 /\ threads[2].state = "failed"
  /\ error_count = 0
  /\ MainOut = <<2, 3>>

IsRaceProgram == program \in RacePrograms

\* C9: the Table bound to t in the global scope is the object every thread
\* reaches through the scope chain, and the two increments of t["k"] are not
\* synchronized: each thread's write is seen by the others, and when both
\* have ended t["k"] is 2 or, one update being lost, 1.
C9_SharedWithoutSynchronization ==
  IsRaceProgram =>
    /\ \A i \in 1..Len(threads) :
         SymbolTable_get(scopes, threads[i].context, "t") \in {PyNone, Table(1)}
    /\ AllEnded =>
         /\ \A i \in 1..Len(threads) : threads[i].state = "done"
         /\ "k" \in DOMAIN tables[1]
         /\ tables[1]["k"] \in {Number(1), Number(2)}

\* the lost update: both increments have been done and t["k"] is 1
C9_Witness ==
  /\ IsRaceProgram
  /\ AllEnded
  /\ Len(threads) >= 2
  /\ \A i \in 1..Len(threads) : threads[i].state = "done"
  /\ tables[1]["k"] = Number(1)



(***************************************************************************)
(* Properties of the parser (SpecParse).                                   *)
(***************************************************************************)
\* parse() is at the head of its loop with a token to parse
AtLoopHead ==
  /\ parse_status = "parsing"
  /\ current_token(TheParser).type # TT_EOF

\* the pass of the loop that parse() is about to make leaves the parser and
\* the statements as it finds them
PassChangesNothing ==
  /\ ~NextPass(TheParser).raised
  /\ NextPass(TheParser).p = TheParser
  /\ NextPass(TheParser).statements = statements

\* C10: for every token sequence parse() returns a ProgramNode to its caller
\* and lets no exception escape. parse() never ends in an exception; what it
\* returns is a ProgramNode; and it does return: the loop of parse() is
\* deterministic, so a pass that leaves the parser as it finds it would be
\* repeated for ever, and no pass may be such a pass.
C10_ParseReturnsProgramNode ==
  /\ parse_status # "raised"
  /\ parse_status = "returned" => parse_result.k = "ProgramNode"
  /\ AtLoopHead => ~PassChangesNothing


\* the statements are the last statements of the program stmts
EndsWith(stmts, nodes) ==
  /\ Len(nodes) <= Len(stmts)
  /\ \A i \in 1..Len(nodes) : stmts[Len(stmts) - Len(nodes) + i] = nodes[i]

\* C11: a program of two independent malformed statements, each ended by its
\* period, and then well-formed statements yields two diagnostics, one for
\* each malformed statement, in one call of parse(), and every well-formed
\* statement after them is in the ProgramNode that parse() returns.
C11_TwoDiagnosticsThenStatements ==
  \A m1 \in MalformedStatements, m2 \in MalformedStatements, ws \in WellFormedLists :
    (tokens = RecoveryProgram(m1, m2, ws) /\ parse_status = "returned")
    => /\ Len(errors) = 2
       /\ EndsWith(parse_result.statements, [i \in 1..Len(ws) |-> ws[i].node])


\* the statements of the body of a block
BlockBody(node) ==
  CASE node.k = "IfNode" -> node.cases[1][2]
    [] node.k = "RecordDefNode" -> node.members
    [] OTHER -> node.body_nodes

\* the node of a block of the kind
BlockNodeKind(kind) ==
  CASE kind = "if" -> "IfNode"
    [] kind = "while" -> "WhileNode"
    [] kind = "function" -> "FuncDefNode"
    [] kind = "record" -> "RecordDefNode"

\* the index of the first token after the end of the block and its line
AfterBlockIndex == Len(tokens) - Len(AfterBlock.text) - 1

\* C12: a malformed statement in the body of an if, while, function or
\* record is recovered from inside the block. The loop of parse() is never
\* at a token of the block (the block is closed by its own end and none of
\* its statements is parsed at the enclosing level), and in the ProgramNode
\* that parse() returns the well-formed statements that follow the malformed
\* one are the last statements of the body of the block, and the statement
\* after the block follows the block.
C12_RecoveryInsideBlock ==
  \A kind \in BlockKinds, m \in MalformedStatements, ws \in WellFormedLists :
    tokens = BlockProgram(kind, m, ws)
    => /\ AtLoopHead => token_idx \in {1, AfterBlockIndex}
       /\ parse_status = "returned"
          => /\ Len(parse_result.statements) = 2
             /\ parse_result.statements[1].k = BlockNodeKind(kind)
             /\ EndsWith(BlockBody(parse_result.statements[1]),
                         [i \in 1..Len(ws) |-> ws[i].node])
             /\ parse_result.statements[2] = AfterBlock.node


(***************************************************************************)
(* Properties of the module system                                         *)
(***************************************************************************)
\* the module a imports the module b and the module b imports the module a
Cyclic ==
  /\ \E i \in DOMAIN files.a : files.a[i] = ImportNode("b")
  /\ \E j \in DOMAIN files.b : files.b[j] = ImportNode("a")

\* no file is executed a second time
ExecutedAtMostOnce ==
  \A i, j \in DOMAIN executions : executions[i] = executions[j] => i = j

\* C13: when the module a imports b and b imports a, no module is executed
\* again, and once the program has ended an import has failed with
\* CircularDependencyError
C13_CircularImportRaises ==
  Cyclic =>
    /\ ExecutedAtMostOnce
    /\ calls = <<>> =>
         \E e \in DOMAIN import_errors :
           import_errors[e].type = "CircularDependencyError"

\* C14: in a program without circular imports, whatever modules it imports
\* and however often, the statements of a module file are executed at most
\* once
C14_ModuleExecutedOnce == ~Cyclic => ExecutedAtMostOnce

\* the names a module file exports, binds with let, and can get by an import
ExportsOf(m) ==
  { files[m][i].name : i \in { j \in DOMAIN files[m] : files[m][j].k = "ExportVarNode" } }
LetsOf(m) ==
  { files[m][i].name : i \in { j \in DOMAIN files[m] : files[m][j].k = "VarAssignNode" } }
ImportsOf(m) ==
  IF \E i \in DOMAIN files[m] : files[m][i].k = "ImportNode"
  THEN {LetName(OtherModule(m)), ExportName(OtherModule(m))} ELSE {}

\* C15: in a program without circular imports, every import returns exactly
\* the names the module file marks export, or, when it marks none, the
\* bindings of the module: its let names, and no name but those and the
\* names it has imported
C15_ImportReturnsExports ==
  ~Cyclic =>
    \A i \in DOMAIN imported :
      IF ExportsOf(imported[i].module) # {}
      THEN DOMAIN imported[i].exports = ExportsOf(imported[i].module)
      ELSE /\ LetsOf(imported[i].module) \subseteq DOMAIN imported[i].exports
           /\ DOMAIN imported[i].exports \subseteq
                LetsOf(imported[i].module) \cup ImportsOf(imported[i].module)


(***************************************************************************)
(* Properties of scopes and calls                                          *)
(***************************************************************************)
\* the name is bound in the symbol table itself, not in a parent
BoundIn(scope, name) == name \in DOMAIN scopes[scope].symbols

\* C16: once the program is run, the set of x at the top scope has raised
\* nothing and x is 1 in the global symbol table, bound before or not; the
\* set of y in the function body, when the call scope binds no y, has raised
\* NameError and no call scope binds y; when the body has bound y with let,
\* the call returns 2
C16_SetRequiresBinding ==
  \A global_x, global_y, local_y \in BOOLEAN :
    (program = SetProgram(global_x, global_y, local_y) /\ Len(results) = 5) =>
      /\ ~results[2].exc
      /\ BoundIn(1, "x") /\ scopes[1].symbols["x"] = Number(1)
      /\ IF local_y
         THEN ~results[5].exc /\ results[5].v = Number(2)
         ELSE /\ results[5].exc /\ results[5].v.error_type = "Name Error"
              /\ \A c \in 2..Len(scopes) : ~BoundIn(c, "y")

\* C17: the free variable v of g, called by f, which binds v to 5 in its call
\* scope, is the v of the place where g is defined: the call gives the
\* global 9, and raises a NameError when there is no global v
C17_LexicalScoping ==
  \A global_v \in BOOLEAN :
    (program = ScopeProgram(global_v) /\ Len(results) = 4) =>
      IF global_v
      THEN ~results[4].exc /\ results[4].v = Number(9)
      ELSE results[4].exc /\ results[4].v.error_type = "Name Error"

\* the number of while blocks of a nesting
Whiles(nesting) == Cardinality({ i \in DOMAIN nesting : nesting[i] = "while" })

\* C18: after the call of f, whose return 7 is nested in if and while blocks,
\* the call has given the Number 7 itself, only the print before the return
\* has run, every enclosing loop has made one pass, the frame of f is
\* popped, and the program goes on with its next statement
C18_NestedReturnEndsCall ==
  \A nesting \in Nestings :
    (program = ReturnProgram(nesting) /\ Len(results) >= 2) =>
      /\ results[2] = [exc |-> FALSE, v |-> Number(7)]
      /\ scopes[1].symbols["r"] = Number(7)
      /\ scopes[2].symbols["n"] = Number(Whiles(nesting))
      /\ frames = <<"<main>">> \/ (status = "done" /\ frames = <<>>)
      /\ out = IF Len(results) = 2 THEN <<1>> ELSE <<1, 9>>

\* the return was inside an if inside a while, the program has ended
C18_Witness ==
  /\ program = ReturnProgram(<<"while", "if">>)
  /\ Len(results) = 3
  /\ out = <<1, 9>>

\* the outcome is the TypeError of a call of a function of n parameters with
\* k arguments
ArityError(r, n, k) ==
  /\ r.exc
  /\ r.v.error_type = "Type Error"
  /\ r.v.message = <<"takes", n, "arguments but given", k>>

\* C19: the call of the function f, of the method o.m and of the bound
\* method b, declared with n parameters, with k # n arguments raises the
\* TypeError that names n and k; no frame has been pushed, no call scope
\* created and no statement of a body run (but for the method m without
\* parameters, which the member access o.m itself calls)
C19_ArityCheckedFirst ==
  \A n, k \in 0..MaxArgs :
    (program = ArityProgram(n, k) /\ n # k) =>
      /\ Len(results) >= 4 => ArityError(results[4], n, k)
      /\ Len(results) >= 5 => ArityError(results[5], n, k)
      /\ (Len(results) >= 7 /\ n > 0) => ArityError(results[7], n, k)
      /\ frames \in {<<"<main>">>, <<>>}
      /\ Len(scopes) = IF Len(results) < 2 THEN 1
                       ELSE IF Len(results) < 3 THEN 2
                       ELSE IF n = 0 /\ Len(results) >= 6 THEN 4 ELSE 3
      /\ out = IF n = 0 /\ Len(results) >= 6 THEN <<2>> ELSE <<>>

\* a function and a method of 2 parameters have been called with 1 argument
C19_Witness ==
  /\ program = ArityProgram(2, 1)
  /\ Len(results) = 7
  /\ results[4].exc /\ results[5].exc /\ results[7].exc

\* the data of the container c of an index program before the third statement
Contents(container, populated) ==
  IF ~populated THEN << >>
  ELSE IF container = "Table" THEN [k |-> Number(1)] ELSE <<Number(1)>>

\* C20: the access or assignment of a Table with a key that is no String,
\* and of a Vector with an index that is no Number, has raised the TypeError
\* of its message, and the data of the container is what it was: the
\* access with the right index that follows gives the same value as before
C20_IndexTypeChecked ==
  \A container \in Containers, populated, assign \in BOOLEAN, kind \in BadIndexKinds :
    (program = IndexProgram(container, populated, assign, kind)
       /\ Len(results) >= 3) =>
      /\ results[3].exc
      /\ results[3].v.error_type = "Type Error"
      /\ results[3].v.message =
           IF container = "Table" THEN <<"Table keys must be strings">>
           ELSE <<"Vector indices must be numbers">>
      /\ tables[1] = Contents(container, populated)
      /\ Len(results) >= 4 =>
           results[4] = [exc |-> FALSE,
                         v |-> IF populated THEN Number(1) ELSE NoneValue]

\* a Vector holding one item has been assigned at a String index
C20_Witness ==
  /\ program = IndexProgram("Vector", TRUE, TRUE, "scalar")
  /\ Len(results) = 4
  /\ results[3].exc


\* the default properties of the record R of an instance program, and the
\* properties of an instance made with the constructor arguments named
DefaultsOfR == [x |-> Number(0), y |-> Number(1), v |-> NoneValue]
InstanceOfR(named) ==
  [n \in DOMAIN DefaultsOfR \cup named |->
     IF n \in named
     THEN Number(4 + CHOOSE i \in 1..Len(PropertyNames) : PropertyNames[i] = n)
     ELSE DefaultsOfR[n]]

\* C21: `new R with ...` gives a new instance whose scope holds every
\* default property of R, with exactly the properties named in the
\* constructor arguments set to the arguments' values; the default
\* properties of the record and the properties of the instance made before
\* are what they were
C21_InstanceProperties ==
  \A named_a, named_b \in SUBSET { PropertyNames[i] : i \in 1..Len(PropertyNames) } :
    program = InstanceProgram(named_a, named_b) =>
      /\ Len(results) >= 1 =>
           /\ ~results[1].exc
           /\ scopes[1].symbols["R"].default_props = DefaultsOfR
      /\ Len(results) >= 2 =>
           /\ ~results[2].exc
           /\ results[2].v.t = "RecordInstance"
           /\ results[2].v.record_class.default_props = DefaultsOfR
           /\ scopes[results[2].v.context].symbols = InstanceOfR(named_a)
      /\ Len(results) >= 3 =>
           /\ ~results[3].exc
           /\ results[3].v.t = "RecordInstance"
           /\ results[3].v.context # results[2].v.context
           /\ results[3].v.record_class.default_props = DefaultsOfR
           /\ scopes[results[3].v.context].symbols = InstanceOfR(named_b)

\* an instance with x overwritten has been made after one with y and w set
C21_Witness ==
  /\ program = InstanceProgram({"y", "w"}, {"x"})
  /\ Len(results) = 3
  /\ scopes[results[3].v.context].symbols["x"] = Number(5)
  /\ scopes[results[2].v.context].symbols["x"] = Number(0)


\* C22: a.x is the property x of the instance; a.m, m a method without
\* parameters and no property, is the result of the call of m; a.n, n a
\* method with a parameter, is the BoundMethod of a and n; a name that is
\* neither a property of the instance nor a method of the record raises the
\* AttributeError
C22_MemberAccess ==
  \A global \in BOOLEAN, member \in MemberNames :
    (program = MemberProgram(global, member) /\ Len(results) >= 4) =>
      CASE member = "x" -> ~results[4].exc /\ results[4].v = Number(0)
        [] member = "m" -> ~results[4].exc /\ results[4].v = Number(4)
        [] member = "n" ->
             /\ ~results[4].exc
             /\ results[4].v = BoundMethod(results[3].v,
                                           results[3].v.record_class.methods["n"])
        [] OTHER -> results[4].exc /\ results[4].v.error_type = "Attribute Error"


\* the kinds of value that are false
FalseKinds == {"zero", "empty String", "empty Table", "empty Vector", "None"}

\* C23: not, or, and, if and while take a Number as true iff it is not 0,
\* a String, a Table and a Vector as true iff it is not empty, None as
\* false, and a value of every other kind as true
C23_TruthValue ==
  \A kind \in ValueKinds :
    program = TruthProgram(kind) =>
      LET truth == IF kind \in FalseKinds THEN 1 ELSE 0
      IN /\ Len(results) >= 4 =>
              results[4] = [exc |-> FALSE, v |-> Number(truth)]
         /\ Len(results) >= 5 =>
              results[5] = [exc |-> FALSE, v |-> Number(1 - truth)]
         /\ Len(results) >= 6 =>
              results[6] = [exc |-> FALSE, v |-> Number(1 - truth)]
         /\ Len(results) = 7 => out = <<1 - truth>>
         /\ Len(results) = 8 =>
              out = IF truth = 0 THEN <<1, 2>> ELSE <<0>>


\* the binding strength of the binary operators, as the table gives it
BindingStrength(op) ==
  CASE op \in {"or", "or return error"} -> 1
    [] op = "and" -> 2
    [] op \in {"is", "is not", "is greater than", "is less than", "is an"} -> 3
    [] op \in {"plus", "minus", "concatenated with"} -> 4
    [] op \in {"times", "divided by"} -> 5

\* the nodes of the operands and of the operations of an expression
Operand(n) == NumberNode(NUM(n))
Binary(left, op, right) == BinOpNode(left, OP(op), right)
Unary(op, n) == UnaryOpNode(OP(op), n)

\* parse() has returned, without diagnostic, the program whose one
\* statement is let r be expr
ParsedAs(expr) ==
  /\ parse_status = "returned"
  /\ errors = <<>>
  /\ parse_result = ProgramNode(<<VarAssignNode(ID("r"), expr)>>)

\* the parse of the expression has returned
ExpressionParsed(expr) ==
  tokens = ExpressionProgram(expr) /\ parse_status = "returned"

C25_FrameOfCall ==
  \A ends \in CallEnds :
    (program = FrameProgram(ends) /\ status = "running") =>
      frames = IF ends # "error" \/ Len(results) < 3 THEN <<"<main>">>
               ELSE IF Len(results) = 3 THEN <<"<main>", "f">>
               ELSE <<"<main>", "f", "g", "f">>


\* C26: every pass of the loop of parse() leaves the parser at a later
\* token than it finds it, so the loop reaches the EOF token and parse()
\* returns; also a pass over a stray `end` or over a `create` that no
\* statement follows
C26_PassConsumesToken ==
  AtLoopHead =>
    \/ NextPass(TheParser).raised
    \/ NextPass(TheParser).p.token_idx > token_idx


\* C27: when a top-level statement is about to be executed the stack holds
\* the <main> frame and no other, whatever the statements before it have
\* ended in
C27_MainFrameOnly ==
  (status = "running" /\ pc <= Len(program)) => frames = <<"<main>">>


\* the pass of the loop that parse() is about to make consumes tokens and
\* adds no statement: the statement it went over is discarded
PassDiscards ==
  /\ ~NextPass(TheParser).raised
  /\ NextPass(TheParser).p.token_idx > token_idx
  /\ NextPass(TheParser).statements = statements

\* the node is a let statement with the placeholder value, the number 0 that
\* no source holds, or with the placeholder name
IsPlaceholder(node) ==
  /\ node.k = "VarAssignNode"
  /\ \/ node.name = ID("<error>")
     \/ /\ node.value_node.k = "NumberNode"
        /\ node.value_node.value = NUM("0")

\* the pass of the loop that parse() is about to make adds a statement with
\* a placeholder
PassSubstitutes ==
  /\ ~NextPass(TheParser).raised
  /\ Len(NextPass(TheParser).statements) > Len(statements)
  /\ IsPlaceholder(NextPass(TheParser).statements[Len(statements) + 1])

\* C28: a pass of the loop of parse() that discards the statement it went
\* over, or that puts a placeholder for a part of it, records at least one
\* diagnostic
C28_DiagnosticRecorded ==
  (AtLoopHead /\ (PassDiscards \/ PassSubstitutes)) =>
    Len(NextPass(TheParser).p.errors) > Len(errors)


\* the scopes whose parent is the global scope and that bind the name
ScopesBinding(name) ==
  { i \in 2..Len(scopes) : scopes[i].parent = 1 /\ name \in DOMAIN scopes[i].symbols }

\* every thread of the program has ended
AllThreadsDone == \A i \in 1..Len(threads) : threads[i].state = "done"

\* C29: `set x to 2` in the scope of a function call, a method call, a
\* fiber or a task, x being bound in the global scope only, binds x to 2 in
\* that scope (the read of x that follows there gives 2), and the global x
\* is 7 as before: the read of x in the global scope after the call gives 7
C29_SetShadows ==
  \A kind \in ScopeKinds :
    program = ShadowProgram(kind) =>
      /\ error_count = 0
      /\ \A i \in 1..Len(threads) : threads[i].state # "failed"
      /\ "x" \in DOMAIN scopes[1].symbols => scopes[1].symbols["x"] = Number(7)
      /\ "e" \in DOMAIN scopes[1].symbols => scopes[1].symbols["e"] = Number(7)
      /\ "r" \in DOMAIN scopes[1].symbols => scopes[1].symbols["r"] = Number(2)
      /\ \A i \in ScopesBinding("x") : scopes[i].symbols["x"] = Number(2)
      /\ \A i \in ScopesBinding("l") :
           /\ i \in ScopesBinding("x")
           /\ scopes[i].symbols["l"] = Number(2)
      /\ AllThreadsDone => ScopesBinding("l") # {}

\* the task has set x and the main thread has read x after it
C29_Witness ==
  /\ program = ShadowProgram("task")
  /\ AllThreadsDone
  /\ ScopesBinding("x") # {}
  /\ scopes[1].symbols["e"] = Number(7)


IsFanProgram == program \in FanPrograms
FanSent == 1..(2 * PerSender)
\* the send statements of value v that a thread has executed
SendsDone(v) ==
  { <<i, j>> \in (1..Len(threads)) \X (1..(PerSender + 5)) :
      /\ j <= Len(threads[i].body)
      /\ j < threads[i].ip
      /\ threads[i].body[j].k = "SendNode"
      /\ threads[i].body[j].value_node.value = v }
\* the places of value v in the queue of the channel
InQueue(v) ==
  IF channels = <<>> THEN {}
  ELSE { i \in 1..Len(channels[1].queue) : channels[1].queue[i] = Number(v) }
\* the receives that have returned value v: the variable and its scope
ReceivedAt(v) ==
  { <<i, r, j>> \in (1..Len(scopes)) \X (1..2) \X (1..PerSender) :
      /\ ReceiveNames(r)[j] \in DOMAIN scopes[i].symbols
      /\ scopes[i].symbols[ReceiveNames(r)[j]] = Number(v) }
\* the value the receive j of the receiver r has returned, 0 before it
ReceivedBy(r, j) ==
  LET bound == { i \in 1..Len(scopes) : ReceiveNames(r)[j] \in DOMAIN scopes[i].symbols }
  IN IF bound = {} THEN 0 ELSE scopes[CHOOSE i \in bound : TRUE].symbols[ReceiveNames(r)[j]].value

\* C30: two threads send to one channel while two threads receive from it.
\* A value that has been sent is in the queue once or has been returned by
\* one receive, never both and never twice (not lost, not duplicated); a
\* value not yet sent is nowhere; the values of one sender are in the queue
\* in the order of its sends, leave the queue in that order, and a receiver
\* that gets two values of one sender gets them in that order; when the four
\* receives and the four sends are done every value has been received.
C30_FanInFanOut ==
  IsFanProgram =>
    /\ \A i \in 1..Len(threads) : threads[i].state # "failed"
    /\ \A v \in FanSent :
         /\ Cardinality(SendsDone(v)) <= 1
         /\ Cardinality(InQueue(v)) + Cardinality(ReceivedAt(v))
              = Cardinality(SendsDone(v))
    /\ \A s \in 1..2 : \A first, second \in 1..PerSender :
         first < second =>
           /\ \A i \in InQueue(FanValues(s)[first]), j \in InQueue(FanValues(s)[second]) :
                i < j
           /\ ReceivedAt(FanValues(s)[second]) # {} => ReceivedAt(FanValues(s)[first]) # {}
           /\ \A r \in 1..2 : \A m, n \in 1..PerSender :
                m < n => ~( /\ ReceivedBy(r, m) = FanValues(s)[second]
                            /\ ReceivedBy(r, n) = FanValues(s)[first] )
    /\ AllThreadsDone => \A v \in FanSent : Cardinality(ReceivedAt(v)) = 1

\* the two sender tasks have interleaved their sends, and each of the two
\* receivers has got one value of each sender
C30_Witness ==
  /\ program = FanProgram("tasks send")
  /\ AllThreadsDone
  /\ ReceivedBy(1, 1) = 3 /\ ReceivedBy(1, 2) = 2
  /\ ReceivedBy(2, 1) = 1 /\ ReceivedBy(2, 2) = 4

==============================================================================
